---------------------------- MODULE Spec2Model ----------------------------
(***************************************************************************)
(* Model of the mortgage simulator's calculation engine (formulas.js, as   *)
(* concatenated in src/Makefile, with the configuration of config.js in    *)
(* src/unnamed/part_002 and the earlier formulas.js revision kept in       *)
(* src/unnamed/part_000).                                                  *)
(*                                                                         *)
(* Numbers.  JavaScript numbers are modelled in fixed point:               *)
(*   - money is an integer number of centimes (1 euro = 100);              *)
(*   - a proportional rate of the configuration is a pair <<num, den>>;    *)
(*   - an annual interest rate in percent is an integer number of          *)
(*     thousandths of a percent (3.09 % = 3090), so that the monthly rate  *)
(*     annualRate / 12 / 100 is annualRate / 1200000 exactly;              *)
(*   - growth factors (1 + r)^n are integers scaled by RateScale.          *)
(* Every product followed by a division truncates toward zero once, at the *)
(* end (MulDiv); sums and differences are exact.                           *)
(***************************************************************************)
EXTENDS Integers, Sequences, FiniteSets, TLC

VARIABLES
    loanCall,      \* the latest call of calcRequiredLoan: arguments and result
    loanCallPrev,  \* the call before it
    opt,           \* optimizeMaxPropertyPriceWithInsurance: arguments, loop variables, result
    amort,         \* generateAmortizationTable: arguments, loop variables, table
    ann,           \* calcMonthlyPayment / calcMaxLoan: arguments and results
    taeg,          \* calcTAEG: arguments, optimizer outcome, result
    gig,           \* the gigogne functions: arguments, loop variables, results
    store,         \* the state store (state.js) and the recalculation pass
    lookup         \* the latest call of a table lookup of formulas.js, and the one before

vars == <<loanCall, loanCallPrev, opt, amort, ann, taeg, gig, store, lookup>>

-----------------------------------------------------------------------------
(* Fixed-point arithmetic *)

MaxInt == (2^30 - 1) + 2^30

Euro(x) == x * 100

RateScale == 12 * 10^7

Abs(x) == IF x < 0 THEN -x ELSE x

Max(a, b) == IF a >= b THEN a ELSE b

Min(a, b) == IF a <= b THEN a ELSE b

\* <<q, r>> with a * b = q * c + r and 0 <= r < c, for 0 <= a < c, b >= 0, c < 7 * 10^8;
\* no intermediate value leaves the 32-bit range.
RECURSIVE MulMod(_, _, _)
MulMod(a, b, c) ==
    IF a = 0 \/ b = 0 THEN <<0, 0>>
    ELSE IF a <= MaxInt \div b THEN <<(a * b) \div c, (a * b) % c>>
    ELSE LET h  == MulMod(a, b \div 2, c)
             r3 == 2 * h[2] + (IF b % 2 = 1 THEN a ELSE 0)
         IN  <<2 * h[1] + r3 \div c, r3 % c>>

\* floor(a * b / c) for a, b >= 0 and c > 0
MulDiv(a, b, c) ==
    IF a <= b THEN (b \div c) * a + MulMod(b % c, a, c)[1]
              ELSE (a \div c) * b + MulMod(a % c, b, c)[1]

\* a * b / c truncated toward zero, for operands of either sign
SMulDiv(a, b, c) ==
    LET q == MulDiv(Abs(a), Abs(b), Abs(c))
    IN  IF (a < 0) = ((b < 0) = (c < 0)) THEN -q ELSE q

\* amount * rate for a rate <<num, den>>
Frac(amount, rate) == MulDiv(amount, rate[1], rate[2])

\* Math.pow(base, n) for a factor scaled by RateScale and an integer n >= 0
RECURSIVE PowScaled(_, _)
PowScaled(base, n) ==
    IF n = 0 THEN RateScale
    ELSE IF n % 2 = 1 THEN MulDiv(PowScaled(base, n - 1), base, RateScale)
    ELSE LET h == PowScaled(base, n \div 2) IN MulDiv(h, h, RateScale)

-----------------------------------------------------------------------------
(* config.js *)

FormulaConstants ==
    [ debtRatio |-> <<35, 100>>,
      insuranceRates |-> [ upTo25 |-> <<120, 100000>>,
                           upTo40 |-> <<235, 100000>>,
                           upTo50 |-> <<385, 100000>>,
                           upTo65 |-> <<550, 100000>>,
                           over65 |-> <<650, 100000>> ],
      emolumentRates |-> [ bracket1 |-> <<3870, 100000>>,
                           bracket2 |-> <<1596, 100000>>,
                           bracket3 |-> <<1064, 100000>>,
                           bracket4 |-> <<799, 100000>> ],
      emolumentThresholds |-> [ tier1 |-> Euro(6500),
                                tier2 |-> Euro(17000),
                                tier3 |-> Euro(60000) ],
      emolumentTVA |-> <<120, 100>>,
      propertyTax |-> [ new |-> <<715, 100000>>, old |-> <<58, 1000>> ],
      debours |-> Euro(1000),
      contribution |-> [ rate |-> <<1, 1000>>, minimum |-> Euro(15) ],
      caution |-> [ threshold |-> Euro(500000),
                    commissionRateLow |-> <<12, 1000>>,
                    commissionFixed |-> Euro(6000),
                    commissionRateHigh |-> <<5, 1000>>,
                    fmgRate |-> <<5, 1000>>,
                    minimum |-> Euro(1000) ],
      iteration |-> [ maxIterations |-> 10,
                      convergenceThreshold |-> Euro(100),
                      initialFeesEstimate |-> <<10, 100>> ] ]

-----------------------------------------------------------------------------
(* formulas.js: insurance and annuity *)

\* The brackets with the rates of upTo40 and upTo50 exchanged.
getInsuranceRateBracketsExchanged(age) ==
    LET rates == FormulaConstants.insuranceRates IN
    IF age = 0 \/ age < 0 THEN <<0, 1>>
    ELSE IF age <= 25 THEN rates.upTo25
    ELSE IF age <= 40 THEN rates.upTo50
    ELSE IF age <= 50 THEN rates.upTo40
    ELSE IF age <= 65 THEN rates.upTo65
    ELSE rates.over65

getInsuranceRate(age) ==
    LET rates == FormulaConstants.insuranceRates IN
    IF age = 0 \/ age < 0 THEN <<0, 1>>
    ELSE IF age <= 25 THEN rates.upTo25
    ELSE IF age <= 40 THEN rates.upTo40
    ELSE IF age <= 50 THEN rates.upTo50
    ELSE IF age <= 65 THEN rates.upTo65
    ELSE rates.over65

\* borrowedCapital * insuranceRate / 12
calcMonthlyInsurance(borrowedCapital, insuranceRate) ==
    IF borrowedCapital <= 0 \/ insuranceRate[1] = 0 THEN 0
    ELSE MulDiv(borrowedCapital, insuranceRate[1], insuranceRate[2] * 12)

\* annualRate / 12 / 100, scaled by RateScale
MonthlyRate(annualRate) == SMulDiv(annualRate, RateScale, 12 * 100 * 1000)

\* Math.pow(1 + monthlyRate, numMonths), scaled by RateScale
Growth(monthlyRate, numMonths) ==
    IF numMonths >= 0 THEN PowScaled(RateScale + monthlyRate, numMonths)
    ELSE MulDiv(RateScale, RateScale, PowScaled(RateScale + monthlyRate, -numMonths))

\* The annuity formula solved for the principal over one month less.
calcMaxLoanOneMonthShort(monthlyPayment, annualRate, durationYears) ==
    IF monthlyPayment <= 0 \/ annualRate = 0 \/ durationYears = 0 THEN 0
    ELSE SMulDiv(monthlyPayment,
                 RateScale - Growth(MonthlyRate(annualRate), 1 - durationYears * 12),
                 MonthlyRate(annualRate))

calcMaxLoan(monthlyPayment, annualRate, durationYears) ==
    IF monthlyPayment <= 0 \/ annualRate = 0 \/ durationYears = 0 THEN 0
    ELSE LET monthlyRate == MonthlyRate(annualRate)
             numMonths   == durationYears * 12
         IN  IF monthlyRate = 0 THEN monthlyPayment * numMonths
             ELSE SMulDiv(monthlyPayment,
                          RateScale - Growth(monthlyRate, -numMonths),
                          monthlyRate)

calcMonthlyPayment(loan, annualRate, durationYears) ==
    IF loan <= 0 \/ annualRate = 0 \/ durationYears = 0 THEN 0
    ELSE LET monthlyRate == MonthlyRate(annualRate)
             numMonths   == durationYears * 12
             growth      == Growth(monthlyRate, numMonths)
         IN  IF monthlyRate = 0 THEN loan \div numMonths
             ELSE SMulDiv(loan,
                          SMulDiv(monthlyRate, growth, RateScale),
                          growth - RateScale)

-----------------------------------------------------------------------------
(* formulas.js: fees *)

\* The sliding scale with the third bracket measured from tier1 instead of tier2.
calcEmolumentsThirdBracketFromTier1(price) ==
    LET rates      == FormulaConstants.emolumentRates
        thresholds == FormulaConstants.emolumentThresholds
        e4 == IF price > thresholds.tier3
              THEN Frac(price - thresholds.tier3, rates.bracket4) ELSE 0
        p3 == Min(price, thresholds.tier3)
        e3 == IF p3 > thresholds.tier2
              THEN Frac(p3 - thresholds.tier1, rates.bracket3) ELSE 0
        p2 == Min(p3, thresholds.tier2)
        e2 == IF p2 > thresholds.tier1
              THEN Frac(p2 - thresholds.tier1, rates.bracket2) ELSE 0
        p1 == Min(p2, thresholds.tier1)
        e1 == IF p1 > 0 THEN Frac(p1, rates.bracket1) ELSE 0
    IN  Frac(e4 + e3 + e2 + e1, FormulaConstants.emolumentTVA)

calcEmoluments(price) ==
    LET rates      == FormulaConstants.emolumentRates
        thresholds == FormulaConstants.emolumentThresholds
        e4 == IF price > thresholds.tier3
              THEN Frac(price - thresholds.tier3, rates.bracket4) ELSE 0
        p3 == Min(price, thresholds.tier3)
        e3 == IF p3 > thresholds.tier2
              THEN Frac(p3 - thresholds.tier2, rates.bracket3) ELSE 0
        p2 == Min(p3, thresholds.tier2)
        e2 == IF p2 > thresholds.tier1
              THEN Frac(p2 - thresholds.tier1, rates.bracket2) ELSE 0
        p1 == Min(p2, thresholds.tier1)
        e1 == IF p1 > 0 THEN Frac(p1, rates.bracket1) ELSE 0
    IN  Frac(e4 + e3 + e2 + e1, FormulaConstants.emolumentTVA)

calcNotaryFees(propertyPrice, propertyType) ==
    IF propertyPrice <= 0 THEN 0
    ELSE LET emoluments == calcEmoluments(propertyPrice)
             taxes == IF propertyType = "new"
                      THEN Frac(propertyPrice, FormulaConstants.propertyTax.new)
                      ELSE Frac(propertyPrice, FormulaConstants.propertyTax.old)
             debours == FormulaConstants.debours
             contribution == Max(FormulaConstants.contribution.minimum,
                                 Frac(propertyPrice, FormulaConstants.contribution.rate))
         IN  emoluments + taxes + debours + contribution

\* The guarantee without the floor at the configured minimum.
calcCautionCreditLogementWithoutMinimum(loanAmount) ==
    IF loanAmount <= 0 THEN 0
    ELSE LET cautionConfig == FormulaConstants.caution
             commission ==
                 IF loanAmount <= cautionConfig.threshold
                 THEN Frac(loanAmount, cautionConfig.commissionRateLow)
                 ELSE cautionConfig.commissionFixed
                      + Frac(loanAmount - cautionConfig.threshold,
                             cautionConfig.commissionRateHigh)
             fmg == Frac(loanAmount, cautionConfig.fmgRate)
         IN  commission + fmg

calcCautionCreditLogement(loanAmount) ==
    IF loanAmount <= 0 THEN 0
    ELSE LET cautionConfig == FormulaConstants.caution
             commission ==
                 IF loanAmount <= cautionConfig.threshold
                 THEN Frac(loanAmount, cautionConfig.commissionRateLow)
                 ELSE cautionConfig.commissionFixed
                      + Frac(loanAmount - cautionConfig.threshold,
                             cautionConfig.commissionRateHigh)
             fmg == Frac(loanAmount, cautionConfig.fmgRate)
         IN  Max(cautionConfig.minimum, commission + fmg)

-----------------------------------------------------------------------------
(* formulas.js: required loan for a selected price *)

\* The while loop of calcRequiredLoan; `iterations` counts the completed passes.
RECURSIVE RequiredLoanLoop(_, _, _, _, _, _, _)
RequiredLoanLoop(propertyPrice, capital, fraisDossier, notaryFees, estimatedLoan, previousLoan, iterations) ==
    LET iterConfig == FormulaConstants.iteration IN
    IF Abs(estimatedLoan - previousLoan) > iterConfig.convergenceThreshold
       /\ iterations < iterConfig.maxIterations
    THEN LET caution   == calcCautionCreditLogement(estimatedLoan)
             totalFees == notaryFees + fraisDossier + caution
             newLoan   == propertyPrice + totalFees - capital
         IN  IF newLoan < 0
             THEN [estimatedLoan |-> 0, iterations |-> iterations]
             ELSE RequiredLoanLoop(propertyPrice, capital, fraisDossier, notaryFees,
                                   newLoan, estimatedLoan, iterations + 1)
    ELSE [estimatedLoan |-> estimatedLoan, iterations |-> iterations]

calcRequiredLoan(propertyPrice, capital, fraisDossier, propertyType) ==
    IF propertyPrice <= 0
    THEN [loan |-> 0, caution |-> 0, notaryFees |-> 0, totalFees |-> 0, iterations |-> 0]
    ELSE LET notaryFees == calcNotaryFees(propertyPrice, propertyType)
             initial == propertyPrice
                        + Frac(propertyPrice, FormulaConstants.iteration.initialFeesEstimate)
                        - capital
             loop == RequiredLoanLoop(propertyPrice, capital, fraisDossier, notaryFees,
                                      initial, 0, 0)
             finalCaution == calcCautionCreditLogement(loop.estimatedLoan)
         IN  [loan |-> Max(0, loop.estimatedLoan),
              caution |-> finalCaution,
              notaryFees |-> notaryFees,
              totalFees |-> notaryFees + fraisDossier + finalCaution,
              iterations |-> loop.iterations]

-----------------------------------------------------------------------------
(* formulas.js: maximum property price *)

\* The while loop of calcMaxPropertyPrice.
RECURSIVE MaxPropertyPriceLoop(_, _, _, _, _, _, _)
MaxPropertyPriceLoop(capital, maxLoan, fraisDossier, propertyType, estimatedPrice, previousPrice, iterations) ==
    LET iterConfig == FormulaConstants.iteration IN
    IF Abs(estimatedPrice - previousPrice) > iterConfig.convergenceThreshold
       /\ iterations < iterConfig.maxIterations
    THEN LET notaryFees == calcNotaryFees(estimatedPrice, propertyType)
             caution    == calcCautionCreditLogement(maxLoan)
             totalFees  == notaryFees + fraisDossier + caution
         IN  MaxPropertyPriceLoop(capital, maxLoan, fraisDossier, propertyType,
                                  capital + maxLoan - totalFees, estimatedPrice,
                                  iterations + 1)
    ELSE [estimatedPrice |-> estimatedPrice, iterations |-> iterations]

calcMaxPropertyPrice(capital, maxLoan, fraisDossier, propertyType) ==
    IF capital <= 0 \/ maxLoan <= 0
    THEN [price |-> 0, notaryFees |-> 0, caution |-> 0, totalFees |-> 0, iterations |-> 0]
    ELSE LET loop == MaxPropertyPriceLoop(capital, maxLoan, fraisDossier, propertyType,
                                          capital + maxLoan, 0, 0)
             finalNotaryFees == calcNotaryFees(loop.estimatedPrice, propertyType)
             finalCaution    == calcCautionCreditLogement(maxLoan)
         IN  [price |-> Max(0, loop.estimatedPrice),
              notaryFees |-> finalNotaryFees,
              caution |-> finalCaution,
              totalFees |-> finalNotaryFees + fraisDossier + finalCaution,
              iterations |-> loop.iterations]

\* The record optimizeMaxPropertyPriceWithInsurance returns when it has no solution.
ZeroPriceResult ==
    [price |-> 0, notaryFees |-> 0, caution |-> 0, totalFees |-> 0,
     loan |-> 0, monthlyPayment |-> 0, monthlyInsurance |-> 0]

NoLoanResult ==
    [loan |-> 0, caution |-> 0, notaryFees |-> 0, totalFees |-> 0, iterations |-> 0]

\* The monthly cost of a loan with the insurance left out.
TotalMonthlyCostWithoutInsurance(requiredLoan, a) ==
    calcMonthlyPayment(requiredLoan, a.annualRate, a.durationYears)

\* totalMonthlyCost = monthlyLoanPayment + monthlyInsurance
TotalMonthlyCost(requiredLoan, a) ==
    calcMonthlyPayment(requiredLoan, a.annualRate, a.durationYears)
        + calcMonthlyInsurance(requiredLoan, getInsuranceRate(a.age))

\* What checkAffordability returns once loanResult is known.  hasLoanResult tells
\* whether the returned object carries the fields loan and loanResult.
AffordabilityOfLoan(loanResult, a) ==
    IF loanResult.loan <= 0
    THEN [affordable |-> TRUE, totalMonthlyCost |-> 0,
          shortfall |-> -a.maxMonthlyPayment,
          hasLoanResult |-> FALSE, loan |-> 0, loanResult |-> NoLoanResult]
    ELSE [affordable |-> TotalMonthlyCost(loanResult.loan, a) - a.maxMonthlyPayment <= 0,
          totalMonthlyCost |-> TotalMonthlyCost(loanResult.loan, a),
          shortfall |-> TotalMonthlyCost(loanResult.loan, a) - a.maxMonthlyPayment,
          hasLoanResult |-> TRUE, loan |-> loanResult.loan, loanResult |-> loanResult]

\* The helper checkAffordability of optimizeMaxPropertyPriceWithInsurance; a is the
\* record of the enclosing call's arguments.
checkAffordability(candidatePrice, a) ==
    AffordabilityOfLoan(calcRequiredLoan(candidatePrice, a.capital, a.fraisDossier,
                                         a.propertyType), a)

\* The price calcMaxPropertyPrice gives for the loan the budget pays without insurance.
InitialMaxPrice(a) ==
    calcMaxPropertyPrice(a.capital,
                         calcMaxLoan(a.maxMonthlyPayment, a.annualRate, a.durationYears),
                         a.fraisDossier, a.propertyType).price

-----------------------------------------------------------------------------
(* Calls of calcRequiredLoan: the arguments other than the price are fixed   *)
(* at the start, and the function is called for one price after another.    *)

NumPrices == 8

Prices ==
    {Euro(44600) + k * Euro(200) : k \in 0..NumPrices}
        \cup {Euro(100000), Euro(250000), Euro(600000)}

Capitals == {0, Euro(20000), Euro(50000)}

FraisDossiers == {0, Euro(1000)}

PropertyTypes == {"old", "new"}

Idle == [pc |-> "idle"]

NoCall(capital, fraisDossier, propertyType) ==
    [called |-> FALSE, propertyPrice |-> 0, capital |-> capital,
     fraisDossier |-> fraisDossier, propertyType |-> propertyType,
     result |-> NoLoanResult]

InitRequiredLoan ==
    /\ \E c \in Capitals, f \in FraisDossiers, t \in PropertyTypes :
          /\ loanCall = NoCall(c, f, t)
          /\ loanCallPrev = NoCall(c, f, t)
    /\ opt = Idle /\ amort = Idle /\ ann = Idle /\ taeg = Idle
    /\ gig = Idle /\ store = Idle /\ lookup = Idle

CallCalcRequiredLoan ==
    \E p \in Prices :
       /\ loanCall' = [loanCall EXCEPT
                          !.called = TRUE,
                          !.propertyPrice = p,
                          !.result = calcRequiredLoan(p, loanCall.capital,
                                                      loanCall.fraisDossier,
                                                      loanCall.propertyType)]
       /\ loanCallPrev' = loanCall
       /\ UNCHANGED <<opt, amort, ann, taeg, gig, store, lookup>>

NextRequiredLoan == CallCalcRequiredLoan

SpecRequiredLoan == InitRequiredLoan /\ [][NextRequiredLoan]_vars

\* price + notary fees + fraisDossier - capital: what the loan must cover besides
\* its own guarantee fee
LoanBeforeCaution(call) ==
    call.propertyPrice + calcNotaryFees(call.propertyPrice, call.propertyType)
        + call.fraisDossier - call.capital

\* The right-hand side of L = max(0, price + notaryFees + fraisDossier + guaranteeFee(L) - capital)
FeeEquationRhs(L, call) == Max(0, LoanBeforeCaution(call) + calcCautionCreditLogement(L))

\* Where a solution of the fee equation can lie: 0, and the solution of each linear
\* piece of the guarantee fee (the floor, the low tier, the high tier).
FeeEquationCandidates(call) ==
    LET X == LoanBeforeCaution(call)
        c == FormulaConstants.caution
        den == c.fmgRate[2]
        low == MulDiv(Max(0, X), den, den - c.commissionRateLow[1] - c.fmgRate[1])
        high == MulDiv(Max(0, X + c.commissionFixed - Frac(c.threshold, c.commissionRateHigh)),
                       den, den - c.commissionRateHigh[1] - c.fmgRate[1])
    IN  {0} \cup UNION {{Max(0, m + d) : d \in -3..3} : m \in {X + c.minimum, low, high}}

FeeEquationSolutions(call) ==
    {L \in FeeEquationCandidates(call) : L = FeeEquationRhs(L, call)}

\* C1: calcRequiredLoan is monotonic in the price: with capital, fraisDossier and
\* propertyType fixed, of two calls the one with the lower price never returns the
\* greater loan.
C1_LoanMonotonicInPrice ==
    (loanCall.called /\ loanCallPrev.called
        /\ loanCallPrev.propertyPrice <= loanCall.propertyPrice)
    => loanCallPrev.result.loan <= loanCall.result.loan

\* C2: the loan calcRequiredLoan returns is within the convergence tolerance of a
\* solution L of L = max(0, price + notaryFees + fraisDossier + guaranteeFee(L) - capital).
C2_LoanWithinToleranceOfSolution ==
    loanCall.called
    => \E L \in FeeEquationSolutions(loanCall) :
          Abs(loanCall.result.loan - L) <= FormulaConstants.iteration.convergenceThreshold

-----------------------------------------------------------------------------
(* optimizeMaxPropertyPriceWithInsurance: one call, its binary search taken  *)
(* one iteration at a time.                                                  *)

NumBudgets == 3

\* maxMonthlyPayment comes from calcMaxMonthlyPayment, which never returns a negative
Budgets == {Euro(1), Euro(8)} \cup {k * Euro(500) : k \in 0..NumBudgets}

Ages == {0, 30, 70}

SearchTolerance == Euro(100)

SearchMaxIterations == 30

OptimizeArgs ==
    [capital : {0, Euro(50000)}, maxMonthlyPayment : Budgets,
     fraisDossier : {Euro(1000)}, propertyType : PropertyTypes,
     annualRate : {3170}, durationYears : {20}, age : Ages]

InitOptimize ==
    /\ \E a \in OptimizeArgs :
          opt = [pc |-> "start", a |-> a, initialMaxPrice |-> 0, minPrice |-> 0,
                 maxPrice |-> 0, optimalPrice |-> 0, iterations |-> 0,
                 result |-> ZeroPriceResult]
    /\ loanCall = Idle /\ loanCallPrev = Idle /\ amort = Idle /\ ann = Idle /\ taeg = Idle
    /\ gig = Idle /\ store = Idle /\ lookup = Idle

\* Lines 450-532: input validation, the initial maximum price, the search bounds.
OptimizeStart ==
    /\ opt.pc = "start"
    /\ LET a == opt.a
           initial == InitialMaxPrice(a)
       IN  opt' = IF a.capital <= 0 \/ a.maxMonthlyPayment <= 0 \/ initial <= 0
                  THEN [opt EXCEPT !.pc = "done", !.result = ZeroPriceResult]
                  ELSE [opt EXCEPT !.pc = "search", !.initialMaxPrice = initial,
                                   !.minPrice = 0, !.maxPrice = initial,
                                   !.optimalPrice = 0, !.iterations = 0]
    /\ UNCHANGED <<loanCall, loanCallPrev, amort, ann, taeg, gig, store, lookup>>

SearchContinues ==
    opt.maxPrice - opt.minPrice > SearchTolerance /\ opt.iterations < SearchMaxIterations

\* Lines 535-549: one iteration of the binary search.
OptimizeSearchStep ==
    /\ opt.pc = "search"
    /\ SearchContinues
    /\ LET midPrice == (opt.minPrice + opt.maxPrice) \div 2
           check    == checkAffordability(midPrice, opt.a)
       IN  opt' = IF check.affordable
                  THEN [opt EXCEPT !.optimalPrice = midPrice, !.minPrice = midPrice,
                                   !.iterations = @ + 1]
                  ELSE [opt EXCEPT !.maxPrice = midPrice, !.iterations = @ + 1]
    /\ UNCHANGED <<loanCall, loanCallPrev, amort, ann, taeg, gig, store, lookup>>

\* Lines 554-577: the record returned after the final check.
OptimizeResult(optimalPrice, finalCheck, a) ==
    IF optimalPrice > 0 /\ finalCheck.hasLoanResult
    THEN [price |-> optimalPrice,
          notaryFees |-> finalCheck.loanResult.notaryFees,
          caution |-> finalCheck.loanResult.caution,
          totalFees |-> finalCheck.loanResult.totalFees,
          loan |-> finalCheck.loanResult.loan,
          monthlyPayment |-> calcMonthlyPayment(finalCheck.loanResult.loan,
                                                a.annualRate, a.durationYears),
          monthlyInsurance |-> calcMonthlyInsurance(finalCheck.loanResult.loan,
                                                    getInsuranceRate(a.age))]
    ELSE ZeroPriceResult

\* Lines 551-577: the final check at the optimal price and the return.
OptimizeFinal ==
    /\ opt.pc = "search"
    /\ ~SearchContinues
    /\ opt' = [opt EXCEPT
                  !.pc = "done",
                  !.result = OptimizeResult(opt.optimalPrice,
                                            checkAffordability(opt.optimalPrice, opt.a),
                                            opt.a)]
    /\ UNCHANGED <<loanCall, loanCallPrev, amort, ann, taeg, gig, store, lookup>>

NextOptimize == OptimizeStart \/ OptimizeSearchStep \/ OptimizeFinal

SpecOptimize == InitOptimize /\ [][NextOptimize]_vars

NumProbes == 60

\* Prices at which the claims about the whole search range are sampled.
ProbePrices == {k * Euro(5000) : k \in 1..NumProbes}

Affordable(price, a) == checkAffordability(price, a).affordable

\* C3: optimizeMaxPropertyPriceWithInsurance returns the supremum affordable price
\* within the tolerance: the returned price is affordable, no price from the returned
\* price + tolerance up to the initial maximum price is affordable, and the returned
\* price is positive whenever some positive price of the search range is affordable.
C3_ReturnsSupremumAffordablePrice ==
    opt.pc = "done"
    => LET a == opt.a
           initial == InitialMaxPrice(a)
       IN  /\ Affordable(opt.result.price, a)
           /\ \A p \in ProbePrices :
                 (opt.result.price + SearchTolerance <= p /\ p <= initial)
                 => ~Affordable(p, a)
           /\ (\E p \in ProbePrices : p <= initial /\ Affordable(p, a))
              => opt.result.price > 0

-----------------------------------------------------------------------------
(* generateAmortizationTable: one call, its for loop taken one month at a    *)
(* time.                                                                     *)

MaxYears == 2

AmortizationArgs ==
    [loan : {0, Euro(1000), Euro(200000)}, annualRate : {0, 3090, 12000},
     durationYears : 0..MaxYears,
     insuranceRate : {<<0, 1>>, FormulaConstants.insuranceRates.upTo40}]

\* The year taken as the quotient of month by 12, plus one.
YearOfMonthTruncated(month) == month \div 12 + 1

\* Line 690: Math.ceil(month / 12)
YearOfMonth(month) == (month + 11) \div 12

\* The balance after the last month's payment, left as computed.
BalanceAfterUnforced(month, numMonths, remainingCapital) == remainingCapital

\* Lines 680-682: the balance is forced to 0 in the last month.
BalanceAfter(month, numMonths, remainingCapital) ==
    IF month = numMonths THEN 0 ELSE remainingCapital

\* Line 671: remainingCapital * monthlyRate
InterestPart(remainingCapital, annualRate) ==
    SMulDiv(remainingCapital, MonthlyRate(annualRate), RateScale)

InitAmortization ==
    /\ \E a \in AmortizationArgs :
          amort = [pc |-> "start", loan |-> a.loan, annualRate |-> a.annualRate,
                   durationYears |-> a.durationYears, insuranceRate |-> a.insuranceRate,
                   numMonths |-> 0, monthlyPayment |-> 0, monthlyInsurance |-> 0,
                   month |-> 0, remainingCapital |-> 0, totalPaid |-> 0,
                   table |-> <<>>]
    /\ loanCall = Idle /\ loanCallPrev = Idle /\ opt = Idle /\ ann = Idle /\ taeg = Idle
    /\ gig = Idle /\ store = Idle /\ lookup = Idle

\* Lines 656-667: input validation and the values fixed before the loop.
AmortizationStart ==
    /\ amort.pc = "start"
    /\ amort' =
          IF amort.loan <= 0 \/ amort.annualRate = 0 \/ amort.durationYears = 0
          THEN [amort EXCEPT !.pc = "done"]
          ELSE [amort EXCEPT
                   !.pc = "loop",
                   !.numMonths = amort.durationYears * 12,
                   !.monthlyPayment = calcMonthlyPayment(amort.loan, amort.annualRate,
                                                         amort.durationYears),
                   !.monthlyInsurance = calcMonthlyInsurance(amort.loan,
                                                             amort.insuranceRate),
                   !.month = 1,
                   !.remainingCapital = amort.loan,
                   !.totalPaid = 0]
    /\ UNCHANGED <<loanCall, loanCallPrev, opt, ann, taeg, gig, store, lookup>>

\* Lines 669-698: one pass of the for loop.
AmortizationRow ==
    /\ amort.pc = "loop"
    /\ amort.month <= amort.numMonths
    /\ LET interestPart  == InterestPart(amort.remainingCapital, amort.annualRate)
           principalPart == amort.monthlyPayment - interestPart
           remaining     == BalanceAfter(amort.month, amort.numMonths,
                                         amort.remainingCapital - principalPart)
           totalPaid     == amort.totalPaid + amort.monthlyPayment
                                + amort.monthlyInsurance
       IN  amort' = [amort EXCEPT
                        !.remainingCapital = remaining,
                        !.totalPaid = totalPaid,
                        !.month = @ + 1,
                        !.table = Append(@,
                            [month |-> amort.month,
                             year |-> YearOfMonth(amort.month),
                             payment |-> amort.monthlyPayment,
                             principalPart |-> principalPart,
                             interestPart |-> interestPart,
                             insurance |-> amort.monthlyInsurance,
                             totalPaid |-> totalPaid,
                             remainingCapital |-> Max(0, remaining)])]
    /\ UNCHANGED <<loanCall, loanCallPrev, opt, ann, taeg, gig, store, lookup>>

\* Line 700: return table
AmortizationReturn ==
    /\ amort.pc = "loop"
    /\ amort.month > amort.numMonths
    /\ amort' = [amort EXCEPT !.pc = "done"]
    /\ UNCHANGED <<loanCall, loanCallPrev, opt, ann, taeg, gig, store, lookup>>

NextAmortization == AmortizationStart \/ AmortizationRow \/ AmortizationReturn

SpecAmortization == InitAmortization /\ [][NextAmortization]_vars

\* The balance a row's period starts from.
BalanceBefore(i) ==
    IF i = 1 THEN amort.loan ELSE amort.table[i - 1].remainingCapital

\* C5: in every row of the table, principalPart + interestPart equals payment and
\* interestPart is the balance before the period times the monthly rate; the last
\* row's remainingCapital is exactly 0 and every earlier one is >= 0.
C5_RowsSplitPaymentAndEndAtZero ==
    \A i \in 1..Len(amort.table) :
       LET row == amort.table[i] IN
       /\ row.principalPart + row.interestPart = row.payment
       /\ row.interestPart
             = SMulDiv(BalanceBefore(i), MonthlyRate(amort.annualRate), RateScale)
       /\ row.remainingCapital >= 0
       /\ (amort.pc = "done" /\ i = Len(amort.table)) => row.remainingCapital = 0

\* A returned table of more than a year whose last payment left a residue to absorb.
C5_Witness ==
    /\ amort.pc = "done"
    /\ Len(amort.table) > 12
    /\ amort.table[Len(amort.table)].principalPart
          # amort.table[Len(amort.table) - 1].remainingCapital

\* C6: for loan > 0, annualRate > 0 and durationYears > 0 the table has exactly
\* durationYears * 12 rows, in order, with month = 1..durationYears * 12,
\* year = ceil(month / 12), the insurance computed on the initial loan in every row,
\* and totalPaid of row k equal to k * (payment + insurance).
C6_TableShape ==
    (amort.pc = "done" /\ amort.loan > 0 /\ amort.annualRate > 0
        /\ amort.durationYears > 0)
    => /\ Len(amort.table) = amort.durationYears * 12
       /\ \A k \in 1..Len(amort.table) :
             LET row == amort.table[k] IN
             /\ row.month = k
             /\ row.year * 12 >= k /\ (row.year - 1) * 12 < k
             /\ row.insurance = calcMonthlyInsurance(amort.loan, amort.insuranceRate)
             /\ row.totalPaid = k * (row.payment + row.insurance)

\* A returned two-year table with a positive insurance.
C6_Witness ==
    /\ amort.pc = "done"
    /\ Len(amort.table) = 24
    /\ amort.table[24].year = 2
    /\ amort.table[24].insurance > 0


-----------------------------------------------------------------------------
(* calcMonthlyPayment and calcMaxLoan called directly and one after the other *)

MaxDuration == 25

\* Principals handed to calcMonthlyPayment, payments handed to calcMaxLoan.
Principals == {0, Euro(85), Euro(1000), Euro(50000), Euro(200000)}

Payments == {0, Euro(85), Euro(1000)}

AnnuityRates == {0, 1000, 3090, 6000}

InitAnnuity ==
    /\ \E amount \in Principals \cup Payments, annualRate \in AnnuityRates,
          durationYears \in 0..MaxDuration :
          ann = [pc |-> "start", amount |-> amount, annualRate |-> annualRate,
                 durationYears |-> durationYears, monthlyPayment |-> 0, maxLoan |-> 0]
    /\ loanCall = Idle /\ loanCallPrev = Idle /\ opt = Idle /\ amort = Idle /\ taeg = Idle
    /\ gig = Idle /\ store = Idle /\ lookup = Idle

\* calcMonthlyPayment(amount, annualRate, durationYears)
CallCalcMonthlyPayment ==
    /\ ann.pc = "start"
    /\ ann.amount \in Principals
    /\ ann' = [ann EXCEPT
                  !.pc = "payment",
                  !.monthlyPayment = calcMonthlyPayment(ann.amount, ann.annualRate,
                                                        ann.durationYears)]
    /\ UNCHANGED <<loanCall, loanCallPrev, opt, amort, taeg, gig, store, lookup>>

\* calcMaxLoan(amount, annualRate, durationYears), the amount taken as a payment
CallCalcMaxLoan ==
    /\ ann.pc = "start"
    /\ ann.amount \in Payments
    /\ ann' = [ann EXCEPT
                  !.pc = "maxLoan",
                  !.maxLoan = calcMaxLoan(ann.amount, ann.annualRate,
                                          ann.durationYears)]
    /\ UNCHANGED <<loanCall, loanCallPrev, opt, amort, taeg, gig, store, lookup>>

\* calcMaxLoan(calcMonthlyPayment(amount, ...), annualRate, durationYears)
CallCalcMaxLoanOfPayment ==
    /\ ann.pc = "payment"
    /\ ann' = [ann EXCEPT
                  !.pc = "roundTrip",
                  !.maxLoan = calcMaxLoan(ann.monthlyPayment, ann.annualRate,
                                          ann.durationYears)]
    /\ UNCHANGED <<loanCall, loanCallPrev, opt, amort, taeg, gig, store, lookup>>

NextAnnuity == CallCalcMonthlyPayment \/ CallCalcMaxLoan \/ CallCalcMaxLoanOfPayment

SpecAnnuity == InitAnnuity /\ [][NextAnnuity]_vars

\* The error the fixed-point arithmetic allows on a reconstructed principal: one
\* centime of payment per month of the loan, and one part in 10^5 of the principal.
RoundTripTolerance(principal, numMonths) == numMonths + principal \div 10^5

\* C7: for every principal P > 0, annual rate > 0 and duration > 0,
\* calcMaxLoan(calcMonthlyPayment(P, rate, years), rate, years) returns P within
\* the arithmetic tolerance of the model.
C7_RoundTripReturnsPrincipal ==
    (ann.pc = "roundTrip" /\ ann.amount > 0 /\ ann.annualRate > 0
        /\ ann.durationYears > 0)
    => Abs(ann.maxLoan - ann.amount)
          <= RoundTripTolerance(ann.amount, ann.durationYears * 12)

\* A 200 000 euro principal rebuilt from its payment over 20 years at 3.09 %.
C7_Witness ==
    /\ ann.pc = "roundTrip"
    /\ ann.amount = Euro(200000) /\ ann.annualRate = 3090 /\ ann.durationYears = 20
    /\ ann.monthlyPayment > 0 /\ ann.maxLoan > 0

\* C8: at an annual rate of exactly 0, with principal > 0 and years > 0,
\* calcMonthlyPayment returns principal / (years * 12) and calcMaxLoan returns
\* monthlyPayment * (years * 12).
C8_ZeroRateIsStraightLine ==
    (ann.annualRate = 0 /\ ann.amount > 0 /\ ann.durationYears > 0)
    => /\ ann.pc = "payment"
             => ann.monthlyPayment = ann.amount \div (ann.durationYears * 12)
       /\ ann.pc = "maxLoan"
             => /\ ann.maxLoan \div (ann.durationYears * 12) = ann.amount
                /\ ann.maxLoan % (ann.durationYears * 12) = 0


-----------------------------------------------------------------------------
(* calcTAEG, in its two revisions; optimjs.minimize_Powell is an external     *)
(* library, so each of its runs either throws or yields any rate.            *)

MaxDepth == 3

\* Rates in thousandths of a percent that the optimizer may yield.
OptimizerRates == {-1000, 0, 2000, 3400, 50000, 50001, 80000}

NumberResult(value) == [kind |-> "number", value |-> value]

UndefinedResult == [kind |-> "undefined", value |-> 0]

InitTAEG ==
    /\ \E revision \in {"Makefile", "part_000"}, loan \in {0, Euro(1000)},
          durationYears \in 0..2, nominalRate \in {1000, 3090},
          insuranceRate \in {<<0, 1>>, FormulaConstants.insuranceRates.upTo40} :
          taeg = [pc |-> "start", revision |-> revision, loan |-> loan,
                  monthlyPayment |->
                      calcMonthlyPayment(loan, nominalRate, durationYears)
                          + calcMonthlyInsurance(loan, insuranceRate),
                  durationYears |-> durationYears,
                  nominalRate |-> nominalRate, hasNominalRate |-> TRUE,
                  insuranceRate |-> insuranceRate,
                  costOfCall |-> 0, depth |-> 0, result |-> UndefinedResult]
    /\ loanCall = Idle /\ loanCallPrev = Idle /\ opt = Idle /\ amort = Idle /\ ann = Idle
    /\ gig = Idle /\ store = Idle /\ lookup = Idle

\* Input validation, the same in both revisions.
TAEGValidate ==
    /\ taeg.pc = "start"
    /\ taeg' = IF taeg.loan <= 0 \/ taeg.monthlyPayment <= 0 \/ taeg.durationYears = 0
               THEN [taeg EXCEPT !.pc = "done", !.result = NumberResult(0)]
               ELSE [taeg EXCEPT !.pc = "optimizing",
                                 !.costOfCall = taeg.monthlyPayment]
    /\ UNCHANGED <<loanCall, loanCallPrev, opt, amort, ann, gig, store, lookup>>

\* optimizedTAEG after the floor at nominalRate; a comparison with an absent
\* nominalRate is false.
FlooredTAEG(rate) ==
    IF taeg.hasNominalRate /\ rate < taeg.nominalRate THEN taeg.nominalRate ELSE rate

\* src/Makefile: the optimizer returns. Out of range, console.error reads the
\* identifier error, which is bound only in the catch clause; the ReferenceError
\* is caught there and 0 is returned, as is the value of line 780.
TAEGOptimizerReturns ==
    /\ taeg.pc = "optimizing" /\ taeg.revision = "Makefile"
    /\ \E rate \in OptimizerRates :
          taeg' = [taeg EXCEPT
                      !.pc = "done",
                      !.result = IF FlooredTAEG(rate) < 0 \/ FlooredTAEG(rate) > 50000
                                 THEN NumberResult(0)
                                 ELSE NumberResult(FlooredTAEG(rate))]
    /\ UNCHANGED <<loanCall, loanCallPrev, opt, amort, ann, gig, store, lookup>>

\* src/Makefile: the optimizer throws; the catch clause returns 0.
TAEGOptimizerThrows ==
    /\ taeg.pc = "optimizing" /\ taeg.revision = "Makefile"
    /\ taeg' = [taeg EXCEPT !.pc = "done", !.result = NumberResult(0)]
    /\ UNCHANGED <<loanCall, loanCallPrev, opt, amort, ann, gig, store, lookup>>

\* part_000: the optimizer returns a rate that is in range after the floor.
EarlierTAEGOptimizerReturns ==
    /\ taeg.pc = "optimizing" /\ taeg.revision = "part_000"
    /\ \E rate \in OptimizerRates :
          /\ ~(FlooredTAEG(rate) < 0 \/ FlooredTAEG(rate) > 50000)
          /\ taeg' = [taeg EXCEPT !.pc = "done",
                                  !.result = NumberResult(FlooredTAEG(rate))]
    /\ UNCHANGED <<loanCall, loanCallPrev, opt, amort, ann, gig, store, lookup>>

\* part_000: out of range, calcTAEG(loan, totalCost, durationYears) is called and
\* its value returned; the callee has no nominalRate and no insuranceRate.
EarlierTAEGRecurses ==
    /\ taeg.pc = "optimizing" /\ taeg.revision = "part_000"
    /\ taeg.depth < MaxDepth
    /\ \E rate \in OptimizerRates :
          /\ FlooredTAEG(rate) < 0 \/ FlooredTAEG(rate) > 50000
          /\ taeg' = [taeg EXCEPT
                         !.depth = @ + 1,
                         !.hasNominalRate = FALSE,
                         !.costOfCall = @ * taeg.durationYears * 12]
    /\ UNCHANGED <<loanCall, loanCallPrev, opt, amort, ann, gig, store, lookup>>

\* part_000: the optimizer throws; the catch clause logs and falls off the end of
\* the function, and every caller up the recursion returns that value.
EarlierTAEGOptimizerThrows ==
    /\ taeg.pc = "optimizing" /\ taeg.revision = "part_000"
    /\ taeg' = [taeg EXCEPT !.pc = "done", !.result = UndefinedResult]
    /\ UNCHANGED <<loanCall, loanCallPrev, opt, amort, ann, gig, store, lookup>>

NextTAEG ==
    \/ TAEGValidate
    \/ TAEGOptimizerReturns
    \/ TAEGOptimizerThrows
    \/ EarlierTAEGOptimizerReturns
    \/ EarlierTAEGRecurses
    \/ EarlierTAEGOptimizerThrows

SpecTAEG == InitTAEG /\ [][NextTAEG]_vars

\* C9: for every valid call of calcTAEG (loan > 0, monthlyPayment > 0 equal to the
\* insured annuity payment, duration > 0, nominalRate > 0, insuranceRate > 0) the
\* returned TAEG is >= nominalRate, whatever the optimizer returns or throws.
C9_TAEGAtLeastNominalRate ==
    (taeg.pc = "done" /\ taeg.revision = "Makefile"
        /\ taeg.loan > 0 /\ taeg.monthlyPayment > 0 /\ taeg.durationYears > 0
        /\ taeg.nominalRate > 0 /\ taeg.insuranceRate[1] > 0)
    => /\ taeg.result.kind = "number"
       /\ taeg.result.value >= taeg.nominalRate

\* C10: calcTAEG never raises and always returns a number: when the optimizer
\* throws or yields a value outside [0, 50] the call still returns a numeric rate,
\* never undefined, and the depth of its recursion stays below any bound set for it.
C10_TAEGAlwaysReturnsNumber ==
    /\ taeg.pc = "done" => taeg.result.kind = "number"
    /\ taeg.pc # "idle" => taeg.depth < MaxDepth


-----------------------------------------------------------------------------
(* formulas.js: gigogne (layered loan) *)

\* m2, the payment of the secondary loan, as computed at lines 814-819, 869-874
\* and 923-928.
SecondaryPayment(p2, r2, n2) ==
    IF MonthlyRate(r2) = 0 THEN p2 \div (n2 * 12)
    ELSE SMulDiv(p2,
                 SMulDiv(MonthlyRate(r2), Growth(MonthlyRate(r2), n2 * 12), RateScale),
                 Growth(MonthlyRate(r2), n2 * 12) - RateScale)

\* calcAnnuityFactor(r, n) as the fraction <<numerator, denominator>>
calcAnnuityFactor(r, n) ==
    IF r = 0 THEN <<n, 1>> ELSE <<RateScale - Growth(r, -n), r>>

\* M = (p1 + m2 * A_r1_n2) / A_r1_n1
SmoothPayment(p1, m2, A_r1_n1, A_r1_n2) ==
    MulDiv(p1 + MulDiv(m2, A_r1_n2[1], A_r1_n2[2]), A_r1_n1[2], A_r1_n1[1])

calcSmoothMensuality(p1, r1, n1, p2, r2, n2) ==
    IF p1 < 0 \/ p2 < 0 \/ n1 = 0 \/ n2 = 0 THEN 0
    ELSE SmoothPayment(p1, SecondaryPayment(p2, r2, n2),
                       calcAnnuityFactor(MonthlyRate(r1), n1 * 12),
                       calcAnnuityFactor(MonthlyRate(r1), n2 * 12))

\* Math.floor of an amount >= 0, which is in centimes
FloorEuro(amount) == (amount \div 100) * 100

\* The checkConstraints helper of calcOptimalSecondaryAmount; 0.01 is one centime.
checkConstraints(p2, totalLoan, r1, n1, r2, n2) ==
    calcSmoothMensuality(totalLoan - p2, r1, n1, p2, r2, n2)
            - SecondaryPayment(p2, r2, n2)
        >= SMulDiv(totalLoan - p2, MonthlyRate(r1), RateScale) - 1

SearchIterations == 20

\* The for loop of calcOptimalSecondaryAmount from pass i on.
RECURSIVE SecondarySearchLoop(_, _, _, _, _, _, _, _, _)
SecondarySearchLoop(low, high, optimal, i, totalLoan, r1, n1, r2, n2) ==
    IF i < SearchIterations
    THEN IF checkConstraints((low + high) \div 2, totalLoan, r1, n1, r2, n2)
         THEN SecondarySearchLoop((low + high) \div 2, high, (low + high) \div 2,
                                  i + 1, totalLoan, r1, n1, r2, n2)
         ELSE SecondarySearchLoop(low, (low + high) \div 2, optimal,
                                  i + 1, totalLoan, r1, n1, r2, n2)
    ELSE optimal

\* The largest amount the two caps allow, returned without the constraint check.
calcOptimalSecondaryAmountUnchecked(totalLoan, r1, n1, r2, n2, maxAmount) ==
    IF totalLoan <= 0 THEN 0 ELSE Min(maxAmount, totalLoan)

calcOptimalSecondaryAmount(totalLoan, r1, n1, r2, n2, maxAmount) ==
    IF totalLoan <= 0 THEN 0
    ELSE IF checkConstraints(Min(maxAmount, totalLoan), totalLoan, r1, n1, r2, n2)
    THEN Min(maxAmount, totalLoan)
    ELSE FloorEuro(SecondarySearchLoop(0, Min(maxAmount, totalLoan), 0, 0,
                                       totalLoan, r1, n1, r2, n2))


-----------------------------------------------------------------------------
(* Calls of calcOptimalSecondaryAmount *)

NumMaxAmounts == 2

MaxAmounts ==
    {0, Euro(3000), Euro(50000), Euro(200000)}
        \cup {Euro(100000) + k * Euro(5000) : k \in 0..NumMaxAmounts}

TotalLoans == {0, Euro(10000), Euro(158000)}

SecondaryArgs ==
    [totalLoan : TotalLoans, r1 : {0, 3350}, n1 : {20, 25},
     r2 : {0, 1000, 4000}, n2 : {10, 15, 25}, maxAmount : MaxAmounts]

InitSecondary ==
    /\ \E a \in SecondaryArgs : gig = [pc |-> "start", a |-> a, result |-> 0]
    /\ loanCall = Idle /\ loanCallPrev = Idle /\ opt = Idle /\ amort = Idle
    /\ ann = Idle /\ taeg = Idle /\ store = Idle /\ lookup = Idle

CallCalcOptimalSecondaryAmount ==
    /\ gig.pc = "start"
    /\ gig' = [gig EXCEPT
                  !.pc = "done",
                  !.result = calcOptimalSecondaryAmount(gig.a.totalLoan, gig.a.r1,
                                 gig.a.n1, gig.a.r2, gig.a.n2, gig.a.maxAmount)]
    /\ UNCHANGED <<loanCall, loanCallPrev, opt, amort, ann, taeg, store, lookup>>

NextSecondary == CallCalcOptimalSecondaryAmount

SpecSecondary == InitSecondary /\ [][NextSecondary]_vars

\* The error, in centimes, that the fixed-point arithmetic allows on M - m2: M is
\* truncated twice, by less than one centime each time.
ConstraintSlack == 1 + 1

\* C11: for the amount p2 that calcOptimalSecondaryAmount returns, with
\* p1 = totalLoan - p2, n2 <= n1 and maxAmount >= 0, the primary tranche does not
\* grow: M - m2 >= p1 * r1_monthly - 0.01, where M is the smooth payment and m2 the
\* payment of the secondary loan (up to the truncation error of the arithmetic).
C11_NoNegativeAmortization ==
    (gig.pc = "done" /\ gig.a.n2 <= gig.a.n1)
    => calcSmoothMensuality(gig.a.totalLoan - gig.result, gig.a.r1, gig.a.n1,
                            gig.result, gig.a.r2, gig.a.n2)
             - SecondaryPayment(gig.result, gig.a.r2, gig.a.n2)
          >= SMulDiv(gig.a.totalLoan - gig.result, MonthlyRate(gig.a.r1), RateScale)
                - 1 - ConstraintSlack

\* A call whose result came out of the binary search, below both caps.
C11_Witness ==
    /\ gig.pc = "done" /\ gig.a.n2 < gig.a.n1
    /\ gig.result > 0
    /\ gig.result < gig.a.maxAmount /\ gig.result < gig.a.totalLoan

\* The amount returned when maxAmount does not limit the search.
UnconstrainedOptimum(a) ==
    calcOptimalSecondaryAmount(a.totalLoan, a.r1, a.n1, a.r2, a.n2, a.totalLoan)

\* C12: for fixed totalLoan, rates and durations, any two values of maxAmount
\* that are both larger than the unconstrained optimum yield the same amount.
C12_InsensitiveToMaxAmountAboveOptimum ==
    (gig.pc = "done" /\ gig.a.maxAmount > UnconstrainedOptimum(gig.a))
    => \A maxAmount \in MaxAmounts :
          maxAmount > UnconstrainedOptimum(gig.a)
          => calcOptimalSecondaryAmount(gig.a.totalLoan, gig.a.r1, gig.a.n1,
                                        gig.a.r2, gig.a.n2, maxAmount) = gig.result


-----------------------------------------------------------------------------
(* generateGigogneAmortizationTable: one call, its for loop taken one month  *)
(* at a time.                                                                *)

GigogneTableArgs ==
    [p1 : {0, Euro(5000), Euro(100000)}, p2 : {0, Euro(5000), Euro(50000)},
     r1 : {0, 3090}, r2 : {0, 1000}, n1 : 1..MaxYears, n2 : 1..MaxYears,
     insuranceRate : {<<0, 1>>, FormulaConstants.insuranceRates.upTo40}]

\* The primary tranche paying M - m2 in every month.
PrimaryPaymentOfPhase1(month, nm2, M, m2) == M - m2

\* pay1: M - m2 while both loans run, M afterwards
PrimaryPayment(month, nm2, M, m2) == IF month <= nm2 THEN M - m2 ELSE M

\* pay2: m2 while both loans run, 0 afterwards
SecondaryPaymentOfMonth(month, nm2, m2) == IF month <= nm2 THEN m2 ELSE 0

\* The balance of the secondary tranche, only kept from going negative.
SecondaryBalanceUnforced(month, nm2, remP2) == IF remP2 < 0 THEN 0 ELSE remP2

\* Lines 969 and 972: remP2 is 0 at its maturity month and never negative.
SecondaryBalance(month, nm2, remP2) ==
    IF month = nm2 THEN 0 ELSE IF remP2 < 0 THEN 0 ELSE remP2

\* Lines 970 and 971: remP1 is 0 at its maturity month and never negative.
PrimaryBalance(month, nm1, remP1) ==
    IF month = nm1 THEN 0 ELSE IF remP1 < 0 THEN 0 ELSE remP1

InitGigogneTable ==
    /\ \E a \in GigogneTableArgs :
          gig = [pc |-> "start", a |-> a, M |-> 0, m2 |-> 0, totalIns |-> 0,
                 month |-> 0, remP1 |-> 0, remP2 |-> 0, totalPaid |-> 0,
                 table |-> <<>>]
    /\ loanCall = Idle /\ loanCallPrev = Idle /\ opt = Idle /\ amort = Idle
    /\ ann = Idle /\ taeg = Idle /\ store = Idle /\ lookup = Idle

\* Lines 913-938: the values fixed before the loop.
GigogneTableStart ==
    /\ gig.pc = "start"
    /\ gig' = [gig EXCEPT
                  !.pc = "loop",
                  !.M = calcSmoothMensuality(gig.a.p1, gig.a.r1, gig.a.n1,
                                             gig.a.p2, gig.a.r2, gig.a.n2),
                  !.m2 = SecondaryPayment(gig.a.p2, gig.a.r2, gig.a.n2),
                  !.totalIns = calcMonthlyInsurance(gig.a.p1, gig.a.insuranceRate)
                                 + calcMonthlyInsurance(gig.a.p2, gig.a.insuranceRate),
                  !.month = 1,
                  !.remP1 = gig.a.p1,
                  !.remP2 = gig.a.p2,
                  !.totalPaid = 0]
    /\ UNCHANGED <<loanCall, loanCallPrev, opt, amort, ann, taeg, store, lookup>>

\* Lines 940-992: one pass of the for loop.
GigogneTableRow ==
    /\ gig.pc = "loop"
    /\ gig.month <= gig.a.n1 * 12
    /\ LET nm2    == gig.a.n2 * 12
           pay1   == PrimaryPayment(gig.month, nm2, gig.M, gig.m2)
           pay2   == SecondaryPaymentOfMonth(gig.month, nm2, gig.m2)
           int1   == SMulDiv(gig.remP1, MonthlyRate(gig.a.r1), RateScale)
           int2   == IF gig.month <= nm2
                     THEN SMulDiv(gig.remP2, MonthlyRate(gig.a.r2), RateScale)
                     ELSE 0
           princ1 == pay1 - int1
           princ2 == IF gig.month <= nm2 THEN pay2 - int2 ELSE 0
           remP1  == PrimaryBalance(gig.month, gig.a.n1 * 12, gig.remP1 - princ1)
           remP2  == SecondaryBalance(gig.month, nm2, gig.remP2 - princ2)
           totalPaid == gig.totalPaid + pay1 + pay2 + gig.totalIns
       IN  gig' = [gig EXCEPT
                      !.month = @ + 1,
                      !.remP1 = remP1,
                      !.remP2 = remP2,
                      !.totalPaid = totalPaid,
                      !.table = Append(@,
                          [month |-> gig.month,
                           year |-> YearOfMonth(gig.month),
                           payment |-> pay1 + pay2,
                           paymentP1 |-> pay1, paymentP2 |-> pay2,
                           principalP1 |-> princ1, interestP1 |-> int1,
                           principalP2 |-> princ2, interestP2 |-> int2,
                           insurance |-> gig.totalIns,
                           totalPaid |-> totalPaid,
                           remainingCapitalP1 |-> remP1,
                           remainingCapitalP2 |-> remP2,
                           remainingCapital |-> remP1 + remP2])]
    /\ UNCHANGED <<loanCall, loanCallPrev, opt, amort, ann, taeg, store, lookup>>

\* Line 994: return table
GigogneTableReturn ==
    /\ gig.pc = "loop"
    /\ gig.month > gig.a.n1 * 12
    /\ gig' = [gig EXCEPT !.pc = "done"]
    /\ UNCHANGED <<loanCall, loanCallPrev, opt, amort, ann, taeg, store, lookup>>

NextGigogneTable == GigogneTableStart \/ GigogneTableRow \/ GigogneTableReturn

SpecGigogneTable == InitGigogneTable /\ [][NextGigogneTable]_vars

\* C14: in the table of generateGigogneAmortizationTable (n2 <= n1) the payment
\* paymentP1 + paymentP2 is the same amount M = calcSmoothMensuality(...) in every
\* month, with paymentP2 = m2 during the overlap and paymentP2 = 0 afterwards.
C14_FlatTotalPayment ==
    (gig.pc \in {"loop", "done"} /\ gig.a.n2 <= gig.a.n1)
    => LET M  == calcSmoothMensuality(gig.a.p1, gig.a.r1, gig.a.n1,
                                      gig.a.p2, gig.a.r2, gig.a.n2)
           m2 == SecondaryPayment(gig.a.p2, gig.a.r2, gig.a.n2)
       IN  \A k \in 1..Len(gig.table) :
              /\ gig.table[k].paymentP1 + gig.table[k].paymentP2 = M
              /\ gig.table[k].payment = M
              /\ k <= gig.a.n2 * 12 => gig.table[k].paymentP2 = m2
              /\ k > gig.a.n2 * 12 => gig.table[k].paymentP2 = 0

\* A returned table whose secondary loan matured a year before the primary one.
C14_Witness ==
    /\ gig.pc = "done" /\ gig.a.n2 < gig.a.n1
    /\ gig.a.p1 > 0 /\ gig.a.p2 > 0
    /\ gig.table[1].paymentP2 > 0
    /\ gig.table[Len(gig.table)].paymentP2 = 0
    /\ gig.table[Len(gig.table)].paymentP1 > gig.table[1].paymentP1

\* C15: the table has n1 * 12 rows; remainingCapitalP2 is 0 at month n2 * 12 and in
\* every later month, remainingCapitalP1 is 0 at month n1 * 12, both balances are
\* >= 0 in every row and remainingCapital is their sum.
C15_TranchesEndAtTheirMaturity ==
    /\ gig.pc = "done" => Len(gig.table) = gig.a.n1 * 12
    /\ gig.pc \in {"loop", "done"}
          => \A k \in 1..Len(gig.table) :
                LET row == gig.table[k] IN
                /\ row.month = k
                /\ k >= gig.a.n2 * 12 => row.remainingCapitalP2 = 0
                /\ k = gig.a.n1 * 12 => row.remainingCapitalP1 = 0
                /\ row.remainingCapitalP1 >= 0 /\ row.remainingCapitalP2 >= 0
                /\ row.remainingCapital
                      = row.remainingCapitalP1 + row.remainingCapitalP2

\* A returned table in which the secondary balance was still open the month before
\* its maturity and the primary balance the month before the end.
C15_Witness ==
    /\ gig.pc = "done" /\ gig.a.n2 < gig.a.n1
    /\ gig.table[gig.a.n2 * 12 - 1].remainingCapitalP2 > 0
    /\ gig.table[gig.a.n2 * 12].remainingCapitalP2 = 0
    /\ gig.table[gig.a.n1 * 12 - 1].remainingCapitalP1 > 0

-----------------------------------------------------------------------------
(* formulas.js: the table lookups interpolateRate, getInsuranceRate and      *)
(* calcEmoluments, each called one time after another with arguments of     *)
(* bounded sets.                                                            *)

\* The value of an arithmetic expression with an undefined operand.
NaNResult == [kind |-> "NaN", value |-> 0]

\* JavaScript truthiness of a rate: a number other than 0.
Truthy(rate) == rate.kind = "number" /\ rate.value # 0

\* Lines 194-197: rate1 + (rate2 - rate1) * (duration - d1) / (d2 - d1).
LinearInterpolation(rate1, rate2, duration, d1, d2) ==
    IF rate1.kind # "number" \/ rate2.kind # "number" THEN NaNResult
    ELSE NumberResult(rate1.value
                        + ((rate2.value - rate1.value) * (duration - d1)) \div (d2 - d1))

\* The interpolation with both segments taken between 15 and 20.
interpolateRateOnFirstSegment(duration, rates) ==
    IF duration = 0 THEN NumberResult(0)
    ELSE IF duration \in DOMAIN rates /\ Truthy(rates[duration]) THEN rates[duration]
    ELSE IF duration < 15 THEN rates[15]
    ELSE IF duration <= 25 THEN LinearInterpolation(rates[15], rates[20], duration, 15, 20)
    ELSE rates[25]

\* rates maps 15, 20 and 25 to a number or to undefined (a key that is not there);
\* an annual rate is a whole number of thousandths of a percent.
interpolateRate(duration, rates) ==
    IF duration = 0 THEN NumberResult(0)
    ELSE IF duration \in DOMAIN rates /\ Truthy(rates[duration]) THEN rates[duration]
    ELSE IF duration < 15 THEN rates[15]
    ELSE IF duration <= 20 THEN LinearInterpolation(rates[15], rates[20], duration, 15, 20)
    ELSE IF duration <= 25 THEN LinearInterpolation(rates[20], rates[25], duration, 20, 25)
    ELSE rates[25]

\* getInsuranceRate of an age that may be absent: !age holds of undefined as of 0.
InsuranceRateOfAge(age) ==
    getInsuranceRate(IF age.kind = "number" THEN age.value ELSE 0)

MaxRateDuration == 30

RateDurations == (0 - 1)..MaxRateDuration

\* Multiples of 5, so that the interpolation at a whole duration is exact.
AnchorRates == {UndefinedResult, NumberResult(0), NumberResult(3090),
                NumberResult(3170), NumberResult(3250)}

RateTables == [{15, 20, 25} -> AnchorRates]

MaxAge == 70

AgeInputs == {UndefinedResult} \cup {NumberResult(age) : age \in (0 - 1)..MaxAge}

NumPriceSteps == 3

\* Prices at, one centime and one euro around each threshold, and some away from them.
EmolumentPrices ==
    {0 - Euro(1), 0, 1, Euro(1000)}
        \cup {threshold + d : threshold \in {FormulaConstants.emolumentThresholds.tier1,
                                             FormulaConstants.emolumentThresholds.tier2,
                                             FormulaConstants.emolumentThresholds.tier3},
                              d \in {0 - Euro(1), 0 - 1, 0, 1, Euro(1)}}
        \cup {k * Euro(100000) : k \in 1..NumPriceSteps}

NoLookup ==
    [fn |-> "none", arg |-> UndefinedResult, rates |-> [d \in {15, 20, 25} |-> UndefinedResult],
     result |-> UndefinedResult, insuranceRate |-> <<0, 1>>, emoluments |-> 0,
     caution |-> 0]

\* interpolateRate is called with the rate table of the state, which stays the same
\* from one call to the next.
InitRates ==
    /\ \E rates \in RateTables :
          lookup = [latest |-> [NoLookup EXCEPT !.rates = rates], previous |-> NoLookup]
    /\ loanCall = Idle /\ loanCallPrev = Idle /\ opt = Idle /\ amort = Idle /\ ann = Idle
    /\ taeg = Idle /\ gig = Idle /\ store = Idle

CallInterpolateRate ==
    /\ \E duration \in RateDurations :
          lookup' = [latest |-> [lookup.latest EXCEPT
                                    !.fn = "interpolateRate",
                                    !.arg = NumberResult(duration),
                                    !.result = interpolateRate(duration, lookup.latest.rates)],
                     previous |-> NoLookup]
    /\ UNCHANGED <<loanCall, loanCallPrev, opt, amort, ann, taeg, gig, store>>

NextRates == CallInterpolateRate

SpecRates == InitRates /\ [][NextRates]_vars

InitLookup ==
    /\ lookup = [latest |-> NoLookup, previous |-> NoLookup]
    /\ loanCall = Idle /\ loanCallPrev = Idle /\ opt = Idle /\ amort = Idle /\ ann = Idle
    /\ taeg = Idle /\ gig = Idle /\ store = Idle

CallGetInsuranceRate ==
    /\ \E age \in AgeInputs :
          lookup' = [latest |-> [NoLookup EXCEPT !.fn = "getInsuranceRate",
                                                 !.arg = age,
                                                 !.insuranceRate = InsuranceRateOfAge(age)],
                     previous |-> lookup.latest]
    /\ UNCHANGED <<loanCall, loanCallPrev, opt, amort, ann, taeg, gig, store>>

NextInsurance == CallGetInsuranceRate

SpecInsurance == InitLookup /\ [][NextInsurance]_vars

CallCalcEmoluments ==
    /\ \E price \in EmolumentPrices :
          lookup' = [latest |-> [NoLookup EXCEPT !.fn = "calcEmoluments",
                                                 !.arg = NumberResult(price),
                                                 !.emoluments = calcEmoluments(price)],
                     previous |-> lookup.latest]
    /\ UNCHANGED <<loanCall, loanCallPrev, opt, amort, ann, taeg, gig, store>>

NextEmoluments == CallCalcEmoluments

SpecEmoluments == InitLookup /\ [][NextEmoluments]_vars

PositiveAnchors(rates) == \A d \in {15, 20, 25} : Truthy(rates[d]) /\ rates[d].value > 0

\* value lies between the rates a and b, whichever is the larger.
BetweenRates(value, a, b) == Min(a, b) <= value /\ value <= Max(a, b)

\* C17: with positive rates at 15, 20 and 25, interpolateRate returns rate(D) for D
\* in {15, 20, 25}, rate(15) for 0 < D < 15, rate(25) for D > 25, and otherwise
\* rate(D1) + (rate(D2) - rate(D1)) * (D - D1) / (D2 - D1) for the surrounding
\* anchors, a value between the two surrounding anchor rates.
C17_InterpolationBetweenAnchors ==
    LET c == lookup.latest
        D == c.arg.value
        r == c.rates
    IN  (c.fn = "interpolateRate" /\ PositiveAnchors(r) /\ D > 0)
        => /\ c.result.kind = "number"
           /\ D \in {15, 20, 25} => c.result = r[D]
           /\ D < 15 => c.result = r[15]
           /\ D > 25 => c.result = r[25]
           /\ (15 < D /\ D < 20)
                => /\ (c.result.value - r[15].value) * (20 - 15)
                          = (r[20].value - r[15].value) * (D - 15)
                   /\ BetweenRates(c.result.value, r[15].value, r[20].value)
           /\ (20 < D /\ D < 25)
                => /\ (c.result.value - r[20].value) * (25 - 20)
                          = (r[25].value - r[20].value) * (D - 20)
                   /\ BetweenRates(c.result.value, r[20].value, r[25].value)

\* C17 witness: a call at 22 years with three different positive anchor rates, whose
\* result lies strictly between the rates at 20 and 25.
C17_Witness ==
    /\ lookup.latest.fn = "interpolateRate"
    /\ lookup.latest.arg.value = 22
    /\ PositiveAnchors(lookup.latest.rates)
    /\ lookup.latest.rates[20].value < lookup.latest.result.value
    /\ lookup.latest.result.value < lookup.latest.rates[25].value

\* The anchors a call at this duration reads once the exact match has failed.
NeededAnchors(duration) ==
    IF duration < 15 THEN {15}
    ELSE IF duration <= 20 THEN {15, 20}
    ELSE IF duration <= 25 THEN {20, 25}
    ELSE {25}

\* C18: when an anchor needed by interpolateRate is missing from the table (or is 0)
\* and another anchor is available, the result is a number equal to one of the
\* rates present in the table, never undefined or NaN.
C18_MissingAnchorFallsBack ==
    LET c == lookup.latest
        r == c.rates
    IN  (/\ c.fn = "interpolateRate" /\ c.arg.value > 0
         /\ \E d \in NeededAnchors(c.arg.value) : ~Truthy(r[d])
         /\ \E d \in {15, 20, 25} : Truthy(r[d]))
        => /\ c.result.kind = "number"
           /\ \E d \in {15, 20, 25} : Truthy(r[d]) /\ c.result = r[d]

\* Comparison of two proportional rates <<num, den>>.
LeqRate(p, q) == p[1] * q[2] <= q[1] * p[2]

\* C19: getInsuranceRate returns 0 for an age <= 0 or absent and otherwise the
\* constant of the bracket (<= 25, <= 40, <= 50, <= 65, > 65) of the age, and it is
\* non-decreasing: of two calls with ages a <= b the second rate is not the smaller.
C19_InsuranceRateByBracketNonDecreasing ==
    LET c     == lookup.latest
        p     == lookup.previous
        age   == c.arg.value
        rates == FormulaConstants.insuranceRates
    IN  c.fn = "getInsuranceRate"
        => /\ (c.arg.kind = "undefined" \/ age <= 0) => c.insuranceRate[1] = 0
           /\ (c.arg.kind = "number" /\ 0 < age /\ age <= 25)
                => c.insuranceRate = rates.upTo25
           /\ (c.arg.kind = "number" /\ 25 < age /\ age <= 40)
                => c.insuranceRate = rates.upTo40
           /\ (c.arg.kind = "number" /\ 40 < age /\ age <= 50)
                => c.insuranceRate = rates.upTo50
           /\ (c.arg.kind = "number" /\ 50 < age /\ age <= 65)
                => c.insuranceRate = rates.upTo65
           /\ (c.arg.kind = "number" /\ 65 < age) => c.insuranceRate = rates.over65
           /\ (p.fn = "getInsuranceRate" /\ p.arg.kind = "number"
                    /\ c.arg.kind = "number" /\ p.arg.value <= age)
                => LeqRate(p.insuranceRate, c.insuranceRate)

\* C19 witness: a call at age 40 followed by a call at age 41, across a bracket limit.
C19_Witness ==
    /\ lookup.latest.fn = "getInsuranceRate" /\ lookup.previous.fn = "getInsuranceRate"
    /\ lookup.previous.arg = NumberResult(40) /\ lookup.latest.arg = NumberResult(41)
    /\ lookup.previous.insuranceRate # lookup.latest.insuranceRate

\* The emoluments of the whole brackets below a threshold, tax included.
EmolumentsBelow(tier) ==
    LET rates      == FormulaConstants.emolumentRates
        thresholds == FormulaConstants.emolumentThresholds
        bracket1   == Frac(thresholds.tier1, rates.bracket1)
        bracket2   == Frac(thresholds.tier2 - thresholds.tier1, rates.bracket2)
        bracket3   == Frac(thresholds.tier3 - thresholds.tier2, rates.bracket3)
    IN  Frac(IF tier = thresholds.tier1 THEN bracket1
             ELSE IF tier = thresholds.tier2 THEN bracket1 + bracket2
             ELSE bracket1 + bracket2 + bracket3,
             FormulaConstants.emolumentTVA)

\* Centimes lost by the truncations of two calls and of the bound they are compared to.
EmolumentSlack == 4 + 4

\* C20: at a price of exactly 6500, 17000 or 60000 calcEmoluments returns the
\* cumulative value of the brackets below the threshold times the tax factor, with
\* nothing from the bracket above; and from one price to a higher one the result
\* does not decrease and rises by no more than the highest bracket rate applied to
\* the difference, so it has no jump at a threshold.
C20_ThresholdsBelongToLowerTier ==
    LET c == lookup.latest
        p == lookup.previous
        thresholds == FormulaConstants.emolumentThresholds
    IN  c.fn = "calcEmoluments"
        => /\ c.arg.value \in {thresholds.tier1, thresholds.tier2, thresholds.tier3}
                => c.emoluments = EmolumentsBelow(c.arg.value)
           /\ (p.fn = "calcEmoluments" /\ p.arg.value <= c.arg.value)
                => /\ p.emoluments <= c.emoluments
                   /\ c.emoluments - p.emoluments
                        <= Frac(Frac(c.arg.value - p.arg.value,
                                     FormulaConstants.emolumentRates.bracket1),
                                FormulaConstants.emolumentTVA) + EmolumentSlack

\* C20 witness: a call at exactly 60000, answered with the value of the three
\* brackets below it, followed by a call at 100000 with a higher result.
C20_Witness ==
    /\ lookup.latest.fn = "calcEmoluments" /\ lookup.previous.fn = "calcEmoluments"
    /\ lookup.previous.arg.value = FormulaConstants.emolumentThresholds.tier3
    /\ lookup.previous.emoluments = EmolumentsBelow(lookup.previous.arg.value)
    /\ lookup.latest.arg.value = Euro(100000)
    /\ lookup.previous.emoluments < lookup.latest.emoluments

-----------------------------------------------------------------------------
(* state.js and events.js: the state store, its setters and the              *)
(* recalculation pass Events.recalculate.  The pass runs without             *)
(* interruption; it is taken in steps, and no setter acts between them.      *)

\* reduce over revenues or charges: a yearly amount counts for a twelfth.
RECURSIVE SumMonthly(_, _)
SumMonthly(items, i) ==
    IF i > Len(items) THEN 0
    ELSE (IF items[i].frequency = "yearly" THEN items[i].amount \div 12
          ELSE items[i].amount) + SumMonthly(items, i + 1)

calcTotalMonthlyIncome(revenues) == SumMonthly(revenues, 1)

calcTotalMonthlyCharges(charges) == SumMonthly(charges, 1)

calcMaxMonthlyPayment(income, charges) ==
    Max(0, Frac(income, FormulaConstants.debtRatio) - charges)

\* Lines 535-549 of src/Makefile: the binary search, run to its end.
RECURSIVE MaxPriceSearch(_, _, _, _, _)
MaxPriceSearch(minPrice, maxPrice, optimalPrice, iterations, a) ==
    IF maxPrice - minPrice > SearchTolerance /\ iterations < SearchMaxIterations
    THEN IF checkAffordability((minPrice + maxPrice) \div 2, a).affordable
         THEN MaxPriceSearch((minPrice + maxPrice) \div 2, maxPrice,
                             (minPrice + maxPrice) \div 2, iterations + 1, a)
         ELSE MaxPriceSearch(minPrice, (minPrice + maxPrice) \div 2,
                             optimalPrice, iterations + 1, a)
    ELSE optimalPrice

\* The result of the final check at the price the search ends with.
OptimizeResultAt(optimalPrice, a) ==
    OptimizeResult(optimalPrice, checkAffordability(optimalPrice, a), a)

optimizeMaxPropertyPriceWithInsurance(a) ==
    IF a.capital <= 0 \/ a.maxMonthlyPayment <= 0 \/ InitialMaxPrice(a) <= 0
    THEN ZeroPriceResult
    ELSE OptimizeResultAt(MaxPriceSearch(0, InitialMaxPrice(a), 0, 0, a), a)

\* Rates in thousandths of a percent that the optimizer may yield during a pass.
PassOptimizerRates == {3400, 80000}

\* The results calcTAEG (src/Makefile) can give, over what the optimizer may do.
calcTAEGResults(loan, monthlyPayment, durationYears, nominalRate) ==
    IF loan <= 0 \/ monthlyPayment <= 0 \/ durationYears = 0 THEN {NumberResult(0)}
    ELSE {NumberResult(0)}
            \cup {NumberResult(Max(rate, nominalRate)) :
                    rate \in {r \in PassOptimizerRates :
                                Max(r, nominalRate) >= 0 /\ Max(r, nominalRate) <= 50000}}

\* The number of rows generateAmortizationTable returns.
AmortizationRows(loan, annualRate, durationYears) ==
    IF loan <= 0 \/ annualRate = 0 \/ durationYears = 0 THEN 0 ELSE durationYears * 12

\* Math.min: NaN as soon as an operand is not a number.
MathMin(x, y) ==
    IF x.kind = "number" /\ y.kind = "number" THEN NumberResult(Min(x.value, y.value))
    ELSE NaNResult

\* Math.round of an amount >= 0 to a whole number of euros.
RoundEuro(amount) == ((amount + 50) \div 100) * 100

\* The names the public API of formulas.js gives to MortgageSimulator.Formulas.
FormulasAPI ==
    {"calcTotalMonthlyIncome", "calcTotalMonthlyCharges", "calcMaxMonthlyPayment",
     "getInsuranceRate", "calcMonthlyInsurance", "interpolateRate", "calcMaxLoan",
     "calcMonthlyPayment", "calcNotaryFees", "calcCautionCreditLogement",
     "calcMaxPropertyPrice", "optimizeMaxPropertyPriceWithInsurance",
     "calcRequiredLoan", "generateAmortizationTable", "calcTAEG",
     "calcSmoothMensuality", "calcOptimalSecondaryAmount",
     "generateGigogneAmortizationTable", "calcMaxLoanWithGigogne"}

\* The function recalculate calls for the maximum price (lines 191-214).
MaxPriceFunction(gigogneEnabled) ==
    IF gigogneEnabled THEN "optimizeMaxPropertyPriceWithGigogne"
    ELSE "optimizeMaxPropertyPriceWithInsurance"

NoTable == [kind |-> "none", rows |-> 0]

\* defaultState.  Config has no GigogneDefaults, so gigogne holds nothing but the two
\* amounts: enabled is undefined (falsy) and maxAmount is undefined.
defaultState ==
    [revenues |-> <<[id |-> 1, amount |-> Euro(2800), frequency |-> "monthly"]>>,
     charges |-> <<>>,
     ages |-> [person1 |-> 30],
     capital |-> Euro(50000),
     fraisDossier |-> Euro(1000),
     rates |-> (15 :> NumberResult(3090)) @@ (20 :> NumberResult(3170))
                    @@ (25 :> NumberResult(3250)),
     duration |-> 20,
     propertyType |-> "old",
     propertyPrice |-> Euro(250000),
     gigogne |-> [enabled |-> FALSE, maxAmount |-> UndefinedResult,
                  duration |-> UndefinedResult, rate |-> UndefinedResult,
                  optimalAmount |-> NumberResult(0), actualAmount |-> NumberResult(0)],
     maxLoan |-> 0, maxPropertyPrice |-> 0, requiredLoan |-> 0,
     monthlyPayment |-> 0, monthlyInsurance |-> 0, monthlyPaymentWithInsurance |-> 0,
     totalCost |-> 0, taeg |-> NumberResult(0), amortizationTable |-> NoTable,
     notaryFees |-> 0, cautionFees |-> 0]

\* The local variables of a pass of recalculate.
NoPass ==
    [state |-> defaultState, maxMonthlyPayment |-> 0, currentRate |-> 0,
     gigogneEnabled |-> FALSE, price |-> 0, loan |-> 0]

NumStorePrices == 1

StorePrices == {k * Euro(150000) : k \in 0..NumStorePrices}

GigogneAmounts == {NumberResult(Euro(20000)), NumberResult(Euro(50000))}

InitStore ==
    /\ store = [pc |-> "ready", state |-> defaultState, pass |-> NoPass,
                lastPass |-> "none"]
    /\ loanCall = Idle /\ loanCallPrev = Idle /\ opt = Idle /\ amort = Idle /\ ann = Idle
    /\ taeg = Idle /\ gig = Idle /\ lookup = Idle

setGigogneEnabled ==
    /\ store.pc = "ready"
    /\ \E enabled \in BOOLEAN :
          store' = [store EXCEPT !.state.gigogne.enabled = enabled]
    /\ UNCHANGED <<loanCall, loanCallPrev, opt, amort, ann, taeg, gig, lookup>>

setGigogneMaxAmount ==
    /\ store.pc = "ready"
    /\ \E amount \in GigogneAmounts :
          store' = [store EXCEPT !.state.gigogne.maxAmount = amount]
    /\ UNCHANGED <<loanCall, loanCallPrev, opt, amort, ann, taeg, gig, lookup>>

setGigogneOptimalAmount ==
    /\ store.pc = "ready"
    /\ \E optimal \in GigogneAmounts :
          store' = [store EXCEPT
                       !.state.gigogne.optimalAmount = optimal,
                       !.state.gigogne.actualAmount =
                            MathMin(optimal, store.state.gigogne.maxAmount)]
    /\ UNCHANGED <<loanCall, loanCallPrev, opt, amort, ann, taeg, gig, lookup>>

setPropertyPrice ==
    /\ store.pc = "ready"
    /\ \E price \in StorePrices :
          store' = [store EXCEPT !.state.propertyPrice = price]
    /\ UNCHANGED <<loanCall, loanCallPrev, opt, amort, ann, taeg, gig, lookup>>

\* The budget of a pass, from the snapshot of the state.
PassBudget(state) ==
    calcMaxMonthlyPayment(calcTotalMonthlyIncome(state.revenues),
                          calcTotalMonthlyCharges(state.charges))

\* Lines 150-203: the snapshot, the budget, the rate, the maximum loan, and the call
\* for the maximum price with gigogne enabled.  That call names a function that
\* MortgageSimulator.Formulas does not have: it raises a TypeError, which ends the pass.
RecalculateStart ==
    /\ store.pc = "ready"
    /\ LET state == store.state
           rate  == interpolateRate(state.duration, state.rates).value
       IN  store' =
             [store EXCEPT
                !.state.maxLoan = calcMaxLoan(PassBudget(state), rate, state.duration),
                !.pass = [NoPass EXCEPT !.state = state,
                                        !.maxMonthlyPayment = PassBudget(state),
                                        !.currentRate = rate,
                                        !.gigogneEnabled = state.gigogne.enabled],
                !.pc = IF MaxPriceFunction(state.gigogne.enabled) \in FormulasAPI
                       THEN "maxPrice" ELSE "ready",
                !.lastPass = IF MaxPriceFunction(state.gigogne.enabled) \in FormulasAPI
                             THEN "running" ELSE "TypeError"]
    /\ UNCHANGED <<loanCall, loanCallPrev, opt, amort, ann, taeg, gig, lookup>>

\* The arguments of optimizeMaxPropertyPriceWithInsurance at lines 205-213.
MaxPriceArgs(pass) ==
    [capital |-> pass.state.capital, maxMonthlyPayment |-> pass.maxMonthlyPayment,
     fraisDossier |-> pass.state.fraisDossier, propertyType |-> pass.state.propertyType,
     annualRate |-> pass.currentRate, durationYears |-> pass.state.duration,
     age |-> pass.state.ages.person1]

\* Line 217: setMaxPropertyPrice(optimizedMaxPriceResult.price).
WithMaxPropertyPrice(price) ==
    [store EXCEPT !.state.maxPropertyPrice = price, !.pass.price = price, !.pc = "slider"]

\* Lines 204-217: the maximum price with gigogne disabled.
RecalculateMaxPrice ==
    /\ store.pc = "maxPrice"
    /\ store' = WithMaxPropertyPrice(
                    optimizeMaxPropertyPriceWithInsurance(MaxPriceArgs(store.pass)).price)
    /\ UNCHANGED <<loanCall, loanCallPrev, opt, amort, ann, taeg, gig, lookup>>

\* Lines 219-243: with the slider in the document, a property price above the slider
\* maximum (110 % of the maximum price) is lowered to it in the store.
RecalculateSlider ==
    /\ store.pc = "slider"
    /\ \E sliderInDocument \in BOOLEAN :
          store' = [store EXCEPT
                       !.state.propertyPrice =
                            IF sliderInDocument
                                /\ store.pass.state.propertyPrice
                                        > RoundEuro(Frac(store.pass.price, <<110, 100>>))
                            THEN RoundEuro(Frac(store.pass.price, <<110, 100>>))
                            ELSE @,
                       !.pc = "loan"]
    /\ UNCHANGED <<loanCall, loanCallPrev, opt, amort, ann, taeg, gig, lookup>>

\* The call of calcRequiredLoan at lines 246-251, on the snapshot of the state.
PassRequiredLoan(pass) ==
    calcRequiredLoan(pass.state.propertyPrice, pass.state.capital,
                     pass.state.fraisDossier, pass.state.propertyType)

\* Lines 252-256: setRequiredLoan, setNotaryFees, setCautionFees.
WithRequiredLoan(requiredLoanResult) ==
    [store EXCEPT !.state.requiredLoan = requiredLoanResult.loan,
                  !.state.notaryFees = requiredLoanResult.notaryFees,
                  !.state.cautionFees = requiredLoanResult.caution,
                  !.pass.loan = requiredLoanResult.loan,
                  !.pc = "payment"]

\* Lines 245-256: the required loan and its fees.
RecalculateLoan ==
    /\ store.pc = "loan"
    /\ store' = WithRequiredLoan(PassRequiredLoan(store.pass))
    /\ UNCHANGED <<loanCall, loanCallPrev, opt, amort, ann, taeg, gig, lookup>>

\* monthlyPayment and monthlyInsurance of the standard branch.
PassMonthlyPayment(pass) ==
    calcMonthlyPayment(pass.loan, pass.currentRate, pass.state.duration)

PassMonthlyInsurance(pass) ==
    calcMonthlyInsurance(pass.loan, getInsuranceRate(pass.state.ages.person1))

\* Lines 258-263 and 335-377: the standard branch, the only one a pass reaches, as a
\* pass with gigogne enabled has ended at line 192.
RecalculateStandard ==
    /\ store.pc = "payment"
    /\ ~store.pass.gigogneEnabled
    /\ \E result \in calcTAEGResults(store.pass.loan,
                                     PassMonthlyPayment(store.pass)
                                        + PassMonthlyInsurance(store.pass),
                                     store.pass.state.duration, store.pass.currentRate) :
          store' = [store EXCEPT
                       !.state.monthlyPayment = PassMonthlyPayment(store.pass),
                       !.state.monthlyInsurance = PassMonthlyInsurance(store.pass),
                       !.state.monthlyPaymentWithInsurance =
                            PassMonthlyPayment(store.pass) + PassMonthlyInsurance(store.pass),
                       !.state.totalCost =
                            (PassMonthlyPayment(store.pass) + PassMonthlyInsurance(store.pass))
                                * store.pass.state.duration * 12,
                       !.state.taeg = result,
                       !.state.amortizationTable =
                            [kind |-> "standard",
                             rows |-> AmortizationRows(store.pass.loan, store.pass.currentRate,
                                                       store.pass.state.duration)],
                       !.pass = NoPass,
                       !.pc = "ready",
                       !.lastPass = "completed"]
    /\ UNCHANGED <<loanCall, loanCallPrev, opt, amort, ann, taeg, gig, lookup>>

NextStore ==
    \/ setGigogneEnabled
    \/ setGigogneMaxAmount
    \/ setGigogneOptimalAmount
    \/ setPropertyPrice
    \/ RecalculateStart
    \/ RecalculateMaxPrice
    \/ RecalculateSlider
    \/ RecalculateLoan
    \/ RecalculateStandard

SpecStore == InitStore /\ [][NextStore]_vars

\* C13: between passes, once setGigogneMaxAmount has given a number, whatever the
\* sequence of setGigogneMaxAmount, setGigogneOptimalAmount and recalculations,
\* gigogne.actualAmount equals min(gigogne.optimalAmount, gigogne.maxAmount) and
\* does not exceed the required loan held in the state.
C13_ActualAmountIsCappedOptimum ==
    LET gigogne == store.state.gigogne
    IN  (store.pc = "ready" /\ gigogne.maxAmount.kind = "number")
        => /\ gigogne.actualAmount = MathMin(gigogne.optimalAmount, gigogne.maxAmount)
           /\ gigogne.actualAmount.kind = "number"
           /\ gigogne.actualAmount.value <= store.state.requiredLoan

\* C16: a pass of recalculate that started with gigogne enabled calls only functions
\* that MortgageSimulator.Formulas has and runs to completion, leaving a two-tranche
\* amortization table, a monthly payment, a total cost and a TAEG in the state.
C16_GigognePassCompletes ==
    (store.pc = "ready" /\ store.pass.gigogneEnabled)
    => /\ MaxPriceFunction(store.pass.gigogneEnabled) \in FormulasAPI
       /\ store.lastPass = "completed"
       /\ store.state.amortizationTable.kind = "gigogne"
       /\ store.state.monthlyPayment > 0
       /\ store.state.totalCost > 0
       /\ store.state.taeg.kind = "number"

\* calcRequiredLoan evaluated at the stored property price.
RequiredLoanOfState(state) ==
    calcRequiredLoan(state.propertyPrice, state.capital, state.fraisDossier,
                     state.propertyType)

\* The state holds the loan and fees of calcRequiredLoan at its property price.
LoanMatchesStoredPrice(state) ==
    /\ state.requiredLoan = RequiredLoanOfState(state).loan
    /\ state.notaryFees = RequiredLoanOfState(state).notaryFees
    /\ state.cautionFees = RequiredLoanOfState(state).caution

\* C28: after Events.recalculate completes with gigogne disabled, the stored
\* requiredLoan, notaryFees and cautionFees are those of calcRequiredLoan evaluated at
\* the stored propertyPrice, also when the same pass lowered propertyPrice to the
\* slider maximum (110 % of the maximum affordable price); and the stored
\* propertyPrice then does not exceed that maximum.
C28_LoanIsThatOfStoredPrice ==
    [][(store.pc = "payment" /\ store'.pc = "ready" /\ store'.lastPass = "completed")
          => /\ LoanMatchesStoredPrice(store'.state)
             /\ store'.state.propertyPrice
                    <= RoundEuro(Frac(store.pass.price, <<110, 100>>))]_vars

-----------------------------------------------------------------------------
(* formulas.js: calcCautionCreditLogement, called one time after another.    *)

NumLoanSteps == 3

\* Loans at and around 0, around the loan whose guarantee reaches the minimum, at and
\* around the commission threshold, and some away from them.
CautionLoans ==
    {0 - Euro(1), 0, 1, Euro(1000), Euro(58823), Euro(58824)}
        \cup {FormulaConstants.caution.threshold + d : d \in {0 - Euro(1), 0 - 1, 0, 1, Euro(1)}}
        \cup {k * Euro(200000) : k \in 1..NumLoanSteps}

CallCalcCautionCreditLogement ==
    /\ \E loanAmount \in CautionLoans :
          lookup' = [latest |-> [NoLookup EXCEPT
                                    !.fn = "calcCautionCreditLogement",
                                    !.arg = NumberResult(loanAmount),
                                    !.caution = calcCautionCreditLogement(loanAmount)],
                     previous |-> lookup.latest]
    /\ UNCHANGED <<loanCall, loanCallPrev, opt, amort, ann, taeg, gig, store>>

NextCaution == CallCalcCautionCreditLogement

SpecCaution == InitLookup /\ [][NextCaution]_vars

\* commission + fmg as the claim words it.
CautionBeforeMinimum(loanAmount) ==
    (IF loanAmount <= FormulaConstants.caution.threshold
     THEN Frac(loanAmount, FormulaConstants.caution.commissionRateLow)
     ELSE FormulaConstants.caution.commissionFixed
            + Frac(loanAmount - FormulaConstants.caution.threshold,
                   FormulaConstants.caution.commissionRateHigh))
        + Frac(loanAmount, FormulaConstants.caution.fmgRate)

\* C21: calcCautionCreditLogement returns 0 for loanAmount <= 0 and otherwise
\* max(minimum, commission + loanAmount * fmgRate), the commission being
\* loanAmount * commissionRateLow up to and including the threshold and
\* commissionFixed + (loanAmount - threshold) * commissionRateHigh above it; the
\* result is at least the minimum for a positive loan, and of two calls with
\* loans a <= b the second result is not the smaller.
C21_CautionTiersMinimumMonotonic ==
    LET c == lookup.latest
        p == lookup.previous
    IN  c.fn = "calcCautionCreditLogement"
        => /\ c.arg.value <= 0 => c.caution = 0
           /\ c.arg.value > 0
                => /\ c.caution = Max(FormulaConstants.caution.minimum,
                                      CautionBeforeMinimum(c.arg.value))
                   /\ c.caution >= FormulaConstants.caution.minimum
           /\ (p.fn = "calcCautionCreditLogement" /\ p.arg.value <= c.arg.value)
                => p.caution <= c.caution

\* C21 witness: a call with a small positive loan, answered with the minimum,
\* followed by a call one euro above the threshold, answered with more.
C21_Witness ==
    /\ lookup.latest.fn = "calcCautionCreditLogement"
    /\ lookup.previous.fn = "calcCautionCreditLogement"
    /\ lookup.previous.arg.value = Euro(1000)
    /\ lookup.previous.caution = FormulaConstants.caution.minimum
    /\ lookup.latest.arg.value = FormulaConstants.caution.threshold + Euro(1)
    /\ lookup.latest.caution > lookup.previous.caution

-----------------------------------------------------------------------------
(* formulas.js: calcMonthlyPayment and calcMaxLoan called with inputs of     *)
(* either sign.                                                              *)

MaxGuardYears == 5

GuardAmounts == {0 - Euro(1000), 0, Euro(1000)}

GuardRates == {0 - 1000, 0, 3000}

InitAnnuityGuards ==
    /\ \E amount \in GuardAmounts, annualRate \in GuardRates,
          durationYears \in (0 - MaxGuardYears)..MaxGuardYears :
          ann = [pc |-> "start", amount |-> amount, annualRate |-> annualRate,
                 durationYears |-> durationYears, monthlyPayment |-> 0, maxLoan |-> 0]
    /\ loanCall = Idle /\ loanCallPrev = Idle /\ opt = Idle /\ amort = Idle /\ taeg = Idle
    /\ gig = Idle /\ store = Idle /\ lookup = Idle

\* calcMonthlyPayment(amount, annualRate, durationYears)
GuardedCalcMonthlyPayment ==
    /\ ann.pc = "start"
    /\ ann' = [ann EXCEPT
                  !.pc = "payment",
                  !.monthlyPayment = calcMonthlyPayment(ann.amount, ann.annualRate,
                                                        ann.durationYears)]
    /\ UNCHANGED <<loanCall, loanCallPrev, opt, amort, taeg, gig, store, lookup>>

\* calcMaxLoan(amount, annualRate, durationYears)
GuardedCalcMaxLoan ==
    /\ ann.pc = "start"
    /\ ann' = [ann EXCEPT
                  !.pc = "maxLoan",
                  !.maxLoan = calcMaxLoan(ann.amount, ann.annualRate, ann.durationYears)]
    /\ UNCHANGED <<loanCall, loanCallPrev, opt, amort, taeg, gig, store, lookup>>

NextAnnuityGuards == GuardedCalcMonthlyPayment \/ GuardedCalcMaxLoan

SpecAnnuityGuards == InitAnnuityGuards /\ [][NextAnnuityGuards]_vars

\* C22: calcMonthlyPayment and calcMaxLoan return 0 whenever the principal or
\* payment, the annual rate or the duration is zero or negative, and never return
\* a negative value.
C22_ZeroOnNonPositiveInput ==
    /\ (ann.pc = "payment"
            /\ (ann.amount <= 0 \/ ann.annualRate <= 0 \/ ann.durationYears <= 0))
        => ann.monthlyPayment = 0
    /\ (ann.pc = "maxLoan"
            /\ (ann.amount <= 0 \/ ann.annualRate <= 0 \/ ann.durationYears <= 0))
        => ann.maxLoan = 0
    /\ ann.pc \in {"payment", "maxLoan"} => ann.monthlyPayment >= 0 /\ ann.maxLoan >= 0

-----------------------------------------------------------------------------
(* formulas.js: one call of calcMaxPropertyPrice.                            *)

NumMaxLoans == 6

\* The loans are large enough for the budget to cover the fees.
MaxPriceInputs ==
    [capital : {0, 1, Euro(20000), Euro(50000), Euro(200000)},
     maxLoan : {0} \cup {Euro(50000) + k * Euro(50000) : k \in 1..NumMaxLoans},
     fraisDossier : {0, Euro(1000)},
     propertyType : PropertyTypes]

InitMaxPrice ==
    /\ \E a \in MaxPriceInputs :
          opt = [pc |-> "start", a |-> a,
                 result |-> [price |-> 0, notaryFees |-> 0, caution |-> 0,
                             totalFees |-> 0, iterations |-> 0]]
    /\ loanCall = Idle /\ loanCallPrev = Idle /\ amort = Idle /\ ann = Idle /\ taeg = Idle
    /\ gig = Idle /\ store = Idle /\ lookup = Idle

CallCalcMaxPropertyPrice ==
    /\ opt.pc = "start"
    /\ opt' = [opt EXCEPT
                  !.pc = "done",
                  !.result = calcMaxPropertyPrice(opt.a.capital, opt.a.maxLoan,
                                                  opt.a.fraisDossier, opt.a.propertyType)]
    /\ UNCHANGED <<loanCall, loanCallPrev, amort, ann, taeg, gig, store, lookup>>

NextMaxPrice == CallCalcMaxPropertyPrice

SpecMaxPrice == InitMaxPrice /\ [][NextMaxPrice]_vars

\* What the notary fees can change by when the price changes by the convergence
\* threshold: the rates of the first bracket with tax, of the property tax of an old
\* property and of the contribution add up to less than 11 %.
FeeChangeOverTolerance == Frac(FormulaConstants.iteration.convergenceThreshold, <<11, 100>>)

\* price + notaryFees(price) + fraisDossier + guaranteeFee(maxLoan) - (capital + maxLoan)
BudgetImbalance(a, price) ==
    price + calcNotaryFees(price, a.propertyType) + a.fraisDossier
        + calcCautionCreditLogement(a.maxLoan) - (a.capital + a.maxLoan)

\* C23: for capital >= 0 and maxLoan > 0, when the iteration has converged, the
\* price calcMaxPropertyPrice returns balances the budget up to the fee change over
\* one tolerance step, it is at most capital + maxLoan, and with capital = 0 it is
\* positive.
C23_MaxPriceBalancesBudget ==
    (opt.pc = "done" /\ opt.a.capital >= 0 /\ opt.a.maxLoan > 0
        /\ opt.result.iterations < FormulaConstants.iteration.maxIterations)
    => /\ Abs(BudgetImbalance(opt.a, opt.result.price)) <= FeeChangeOverTolerance
       /\ opt.result.price <= opt.a.capital + opt.a.maxLoan
       /\ opt.a.capital = 0 => opt.result.price > 0

-----------------------------------------------------------------------------
(* Calls of calcOptimalSecondaryAmount with amounts that are not whole       *)
(* numbers of euros, or negative.                                            *)

NumBoundAmounts == 2

\* maxAmount is what parseFloat reads from the input field; totalLoan is the loan
\* calcRequiredLoan returns.
SecondaryBoundArgs ==
    [totalLoan : {0, Euro(10000), Euro(10000) + 75, Euro(158000)},
     r1 : {0, 3350}, n1 : {25}, r2 : {1000}, n2 : {15, 25},
     maxAmount : {0 - Euro(1000), 0, Euro(3000) + 50, Euro(200000)}
                    \cup {k * Euro(3000) : k \in 1..NumBoundAmounts}]

InitSecondaryBounds ==
    /\ \E a \in SecondaryBoundArgs : gig = [pc |-> "start", a |-> a, result |-> 0]
    /\ loanCall = Idle /\ loanCallPrev = Idle /\ opt = Idle /\ amort = Idle
    /\ ann = Idle /\ taeg = Idle /\ store = Idle /\ lookup = Idle

SpecSecondaryBounds == InitSecondaryBounds /\ [][NextSecondary]_vars

\* C24: the value calcOptimalSecondaryAmount returns is a whole number of euros
\* between 0 and min(maxAmount, totalLoan), also when it is the upper bound itself
\* that satisfies the constraint.
C24_ResultIsWholeAndWithinCaps ==
    gig.pc = "done"
    => /\ gig.result = FloorEuro(gig.result)
       /\ gig.result >= 0
       /\ gig.result <= Max(0, Min(gig.a.maxAmount, gig.a.totalLoan))

-----------------------------------------------------------------------------
(* state.js: the revenue and charge items and their identifiers.  The store  *)
(* is reduced to the two lists and the private counter idCounter.            *)

MaxId == 6

MaxItems == 3

ItemDefaults ==
    [revenue |-> [amount |-> Euro(2800), frequency |-> "monthly"],
     charge  |-> [amount |-> 0, frequency |-> "monthly"]]

\* { id: generateId(), ...item } for an item without an id of its own, as
\* handleAddRevenue and handleAddCharge build it.
NewItem(id, item) == [id |-> id, amount |-> item.amount, frequency |-> item.frequency]

\* array.filter(r => r.id !== id)
RECURSIVE WithoutId(_, _)
WithoutId(items, id) ==
    IF items = <<>> THEN <<>>
    ELSE IF Head(items).id = id THEN WithoutId(Tail(items), id)
    ELSE <<Head(items)>> \o WithoutId(Tail(items), id)

\* After the module is loaded: the default revenue has taken id 1.
InitItems ==
    /\ store = [pc |-> "ready", idCounter |-> 2,
                state |-> [revenues |-> defaultState.revenues,
                           charges |-> defaultState.charges]]
    /\ loanCall = Idle /\ loanCallPrev = Idle /\ opt = Idle /\ amort = Idle /\ ann = Idle
    /\ taeg = Idle /\ gig = Idle /\ lookup = Idle

addRevenue ==
    /\ store.idCounter < MaxId /\ Len(store.state.revenues) < MaxItems
    /\ store' = [store EXCEPT
                    !.state.revenues = Append(@, NewItem(store.idCounter,
                                                         ItemDefaults.revenue)),
                    !.idCounter = @ + 1]
    /\ UNCHANGED <<loanCall, loanCallPrev, opt, amort, ann, taeg, gig, lookup>>

addCharge ==
    /\ store.idCounter < MaxId /\ Len(store.state.charges) < MaxItems
    /\ store' = [store EXCEPT
                    !.state.charges = Append(@, NewItem(store.idCounter,
                                                        ItemDefaults.charge)),
                    !.idCounter = @ + 1]
    /\ UNCHANGED <<loanCall, loanCallPrev, opt, amort, ann, taeg, gig, lookup>>

removeRevenue ==
    /\ \E id \in 1..MaxId :
          /\ \E i \in 1..Len(store.state.revenues) : store.state.revenues[i].id = id
          /\ store' = [store EXCEPT !.state.revenues = WithoutId(@, id)]
    /\ UNCHANGED <<loanCall, loanCallPrev, opt, amort, ann, taeg, gig, lookup>>

removeCharge ==
    /\ \E id \in 1..MaxId :
          /\ \E i \in 1..Len(store.state.charges) : store.state.charges[i].id = id
          /\ store' = [store EXCEPT !.state.charges = WithoutId(@, id)]
    /\ UNCHANGED <<loanCall, loanCallPrev, opt, amort, ann, taeg, gig, lookup>>

\* reset: the new default revenue takes idCounter++, and the last statement sets
\* idCounter back to 1.
reset ==
    /\ store' = [store EXCEPT
                    !.state.revenues = <<NewItem(store.idCounter, ItemDefaults.revenue)>>,
                    !.state.charges = <<>>,
                    !.idCounter = 1]
    /\ UNCHANGED <<loanCall, loanCallPrev, opt, amort, ann, taeg, gig, lookup>>

NextItems == addRevenue \/ addCharge \/ removeRevenue \/ removeCharge \/ reset

SpecItems == InitItems /\ [][NextItems]_vars

\* C25: after any sequence of addRevenue, addCharge, removeRevenue, removeCharge
\* and reset, no two of the revenue and charge items in the state have the same id.
C25_ItemIdsAreDistinct ==
    LET items == store.state.revenues \o store.state.charges
    IN  \A i, j \in 1..Len(items) : i # j => items[i].id # items[j].id

-----------------------------------------------------------------------------
(* state.js: toJSON and fromJSON, with the gigogne setters that put values   *)
(* into the state.                                                           *)

\* The value null of JSON.
NullResult == [kind |-> "null", value |-> 0]

\* JSON.stringify followed by JSON.parse, for one value: NaN is written as null; a
\* property that is undefined is left out, and reads as undefined afterwards.
ThroughJSON(v) == IF v.kind = "NaN" THEN NullResult ELSE v

\* JSON.parse(toJSON()): the state with every value taken through JSON.  The other
\* fields hold finite numbers, strings and lists of them in this model.
ParsedJSONOfState(state) ==
    [state EXCEPT
        !.rates = [d \in DOMAIN state.rates |-> ThroughJSON(state.rates[d])],
        !.gigogne.maxAmount = ThroughJSON(@),
        !.gigogne.duration = ThroughJSON(@),
        !.gigogne.rate = ThroughJSON(@),
        !.gigogne.optimalAmount = ThroughJSON(@),
        !.gigogne.actualAmount = ThroughJSON(@),
        !.taeg = ThroughJSON(@)]

\* What parseInt reads from the duration field: a number, or NaN from an empty field.
ParsedDurations == {NumberResult(10), NumberResult(15), NaNResult}

InitJSON ==
    /\ store = [pc |-> "ready", state |-> defaultState, returned |-> "none"]
    /\ loanCall = Idle /\ loanCallPrev = Idle /\ opt = Idle /\ amort = Idle /\ ann = Idle
    /\ taeg = Idle /\ gig = Idle /\ lookup = Idle

setGigogneDuration ==
    /\ store.pc = "ready"
    /\ \E duration \in ParsedDurations :
          store' = [store EXCEPT !.state.gigogne.duration = duration]
    /\ UNCHANGED <<loanCall, loanCallPrev, opt, amort, ann, taeg, gig, lookup>>

\* fromJSON of a string that JSON.parse rejects: the catch clause returns false.
fromJSONOfInvalidString ==
    /\ store.pc = "ready"
    /\ store' = [store EXCEPT !.returned = "false"]
    /\ UNCHANGED <<loanCall, loanCallPrev, opt, amort, ann, taeg, gig, lookup>>

\* fromJSON(toJSON()): Object.assign(state, imported) replaces every property of
\* the state by the parsed one.
fromJSONOfToJSON ==
    /\ store.pc = "ready"
    /\ store' = [store EXCEPT !.state = ParsedJSONOfState(store.state),
                              !.returned = "true"]
    /\ UNCHANGED <<loanCall, loanCallPrev, opt, amort, ann, taeg, gig, lookup>>

NextJSON ==
    \/ setGigogneEnabled
    \/ setGigogneMaxAmount
    \/ setGigogneOptimalAmount
    \/ setGigogneDuration
    \/ fromJSONOfInvalidString
    \/ fromJSONOfToJSON

SpecJSON == InitJSON /\ [][NextJSON]_vars

\* C26: fromJSON of a string that is not valid JSON returns false and leaves the
\* state unchanged; fromJSON of the output of toJSON taken from the current state
\* returns true and leaves the state equal to what it was.
C26_FromJSONKeepsState ==
    [][/\ fromJSONOfInvalidString => store'.returned = "false" /\ store'.state = store.state
       /\ fromJSONOfToJSON => store'.returned = "true" /\ store'.state = store.state]_vars

-----------------------------------------------------------------------------
(* formulas.js: the iterative solvers, one call each, with their passes      *)
(* counted.  The binary searches of the gigogne functions run one pass per   *)
(* step.                                                                     *)

\* amount * A for an annuity factor A = <<numerator, denominator>>
TimesFactor(amount, A) == SMulDiv(amount, A[1], A[2])

\* amount / A
OverFactor(amount, A) == SMulDiv(amount, A[2], A[1])

\* capacityConstant = monthlyPayment * A1_n1
capacityConstant(a) ==
    TimesFactor(a.monthlyPayment, calcAnnuityFactor(MonthlyRate(a.r1), a.n1 * 12))

\* valP2 * ratio, with ratio = A1_n2 / A2_n2
TimesRatio(valP2, a) ==
    OverFactor(TimesFactor(valP2, calcAnnuityFactor(MonthlyRate(a.r1), a.n2 * 12)),
               calcAnnuityFactor(MonthlyRate(a.r2), a.n2 * 12))

\* capacityConstant / ratio
CapacityOverRatio(a) ==
    TimesFactor(OverFactor(capacityConstant(a),
                           calcAnnuityFactor(MonthlyRate(a.r1), a.n2 * 12)),
                calcAnnuityFactor(MonthlyRate(a.r2), a.n2 * 12))

\* p2 after the test of p1 < 0
CappedSecondary(a) ==
    IF capacityConstant(a) - TimesRatio(a.maxP2, a) < 0 THEN CapacityOverRatio(a)
    ELSE a.maxP2

\* The checkNegAmort helper of calcMaxLoanWithGigogne; 0.01 is one centime.
checkNegAmort(valP2, a) ==
    a.monthlyPayment - OverFactor(valP2, calcAnnuityFactor(MonthlyRate(a.r2), a.n2 * 12))
        >= SMulDiv(capacityConstant(a) - TimesRatio(valP2, a), MonthlyRate(a.r1), RateScale) - 1

\* The record calcMaxLoanWithGigogne returns for a secondary amount p2.
MaxLoanWithGigogneResult(p1, p2) == [totalLoan |-> p1 + p2, p1 |-> p1, p2 |-> p2]

GigogneSearchIterations == 20

\* The for loop of calcOptimalSecondaryAmount goes on after i passes.
OptimalSecondaryLoopRunsOnceMore(i) == i <= SearchIterations

OptimalSecondaryLoopRuns(i) == i < SearchIterations

\* The for loop of calcMaxLoanWithGigogne goes on after i passes.
MaxLoanGigogneLoopRuns(i) == i < GigogneSearchIterations

NumSolverLoans == 2

SolverSecondaryArgs ==
    [totalLoan : {0} \cup {Euro(10000) + k * Euro(74000) : k \in 0..NumSolverLoans},
     r1 : {0, 3350}, n1 : {20}, r2 : {0, 1000}, n2 : {10, 25},
     maxAmount : {0, Euro(3000), Euro(100000)}]

SolverMaxLoanArgs ==
    [monthlyPayment : {0, Euro(500), Euro(1000)}, r1 : {0, 3350}, n1 : {20, 25},
     r2 : {0, 1000}, n2 : {10, 15},
     maxP2 : {k * Euro(50000) : k \in 0..NumSolverLoans}]

SolverLoanArgs ==
    [propertyPrice : {0, Euro(44700), Euro(250000), Euro(600000)}, capital : Capitals,
     fraisDossier : FraisDossiers, propertyType : PropertyTypes]

SolverPriceArgs ==
    [capital : {0, Euro(50000)}, maxLoan : {0, Euro(40000), Euro(150000), Euro(700000)},
     fraisDossier : FraisDossiers, propertyType : PropertyTypes]

SolverCall(fn, a) ==
    [pc |-> "start", fn |-> fn, a |-> a, entered |-> FALSE, low |-> 0, high |-> 0,
     optimal |-> 0, i |-> 0, result |-> 0]

SolverOptimizeArgs ==
    [capital : {0, Euro(50000)}, maxMonthlyPayment : {0, Euro(1200)},
     fraisDossier : {Euro(1000)}, propertyType : PropertyTypes,
     annualRate : {3170}, durationYears : {20}, age : {30}]

InitSolvers ==
    \/ /\ \E a \in SolverOptimizeArgs :
             opt = [pc |-> "start", a |-> a, initialMaxPrice |-> 0, minPrice |-> 0,
                    maxPrice |-> 0, optimalPrice |-> 0, iterations |-> 0,
                    result |-> ZeroPriceResult]
       /\ loanCall = Idle /\ loanCallPrev = Idle /\ amort = Idle /\ ann = Idle
       /\ taeg = Idle /\ gig = Idle /\ store = Idle /\ lookup = Idle
    \/ /\ \/ \E a \in SolverSecondaryArgs : gig = SolverCall("calcOptimalSecondaryAmount", a)
          \/ \E a \in SolverMaxLoanArgs : gig = SolverCall("calcMaxLoanWithGigogne", a)
          \/ \E a \in SolverLoanArgs : gig = SolverCall("calcRequiredLoan", a)
          \/ \E a \in SolverPriceArgs : gig = SolverCall("calcMaxPropertyPrice", a)
       /\ loanCall = Idle /\ loanCallPrev = Idle /\ opt = Idle /\ amort = Idle
       /\ ann = Idle /\ taeg = Idle /\ store = Idle /\ lookup = Idle

\* calcRequiredLoan, whose result carries the number of passes of its loop.
SolveRequiredLoan ==
    /\ gig.pc = "start" /\ gig.fn = "calcRequiredLoan"
    /\ gig' = [gig EXCEPT
                  !.pc = "done",
                  !.i = calcRequiredLoan(gig.a.propertyPrice, gig.a.capital,
                                         gig.a.fraisDossier, gig.a.propertyType).iterations,
                  !.result = calcRequiredLoan(gig.a.propertyPrice, gig.a.capital,
                                              gig.a.fraisDossier, gig.a.propertyType).loan]
    /\ UNCHANGED <<loanCall, loanCallPrev, opt, amort, ann, taeg, store, lookup>>

\* calcMaxPropertyPrice, whose result carries the number of passes of its loop.
SolveMaxPropertyPrice ==
    /\ gig.pc = "start" /\ gig.fn = "calcMaxPropertyPrice"
    /\ gig' = [gig EXCEPT
                  !.pc = "done",
                  !.i = calcMaxPropertyPrice(gig.a.capital, gig.a.maxLoan,
                                             gig.a.fraisDossier, gig.a.propertyType).iterations,
                  !.result = calcMaxPropertyPrice(gig.a.capital, gig.a.maxLoan,
                                                  gig.a.fraisDossier, gig.a.propertyType).price]
    /\ UNCHANGED <<loanCall, loanCallPrev, opt, amort, ann, taeg, store, lookup>>

\* Lines 850-892 of calcOptimalSecondaryAmount: the two early returns, or the
\* bounds of the search.
OptimalSecondaryStart ==
    /\ gig.pc = "start" /\ gig.fn = "calcOptimalSecondaryAmount"
    /\ gig' = IF gig.a.totalLoan <= 0
              THEN [gig EXCEPT !.pc = "done", !.result = 0]
              ELSE IF checkConstraints(Min(gig.a.maxAmount, gig.a.totalLoan), gig.a.totalLoan,
                                       gig.a.r1, gig.a.n1, gig.a.r2, gig.a.n2)
              THEN [gig EXCEPT !.pc = "done",
                               !.result = Min(gig.a.maxAmount, gig.a.totalLoan)]
              ELSE [gig EXCEPT !.pc = "search", !.entered = TRUE, !.low = 0,
                               !.high = Min(gig.a.maxAmount, gig.a.totalLoan),
                               !.optimal = 0, !.i = 0]
    /\ UNCHANGED <<loanCall, loanCallPrev, opt, amort, ann, taeg, store, lookup>>

\* Lines 894-902: one pass of the for loop.
OptimalSecondaryStep ==
    /\ gig.pc = "search" /\ gig.fn = "calcOptimalSecondaryAmount"
    /\ OptimalSecondaryLoopRuns(gig.i)
    /\ gig' = IF checkConstraints((gig.low + gig.high) \div 2, gig.a.totalLoan,
                                  gig.a.r1, gig.a.n1, gig.a.r2, gig.a.n2)
              THEN [gig EXCEPT !.optimal = (gig.low + gig.high) \div 2,
                               !.low = (gig.low + gig.high) \div 2, !.i = @ + 1]
              ELSE [gig EXCEPT !.high = (gig.low + gig.high) \div 2, !.i = @ + 1]
    /\ UNCHANGED <<loanCall, loanCallPrev, opt, amort, ann, taeg, store, lookup>>

\* Line 904: return Math.floor(optimal).
OptimalSecondaryReturn ==
    /\ gig.pc = "search" /\ gig.fn = "calcOptimalSecondaryAmount"
    /\ ~OptimalSecondaryLoopRuns(gig.i)
    /\ gig' = [gig EXCEPT !.pc = "done", !.result = FloorEuro(gig.optimal)]
    /\ UNCHANGED <<loanCall, loanCallPrev, opt, amort, ann, taeg, store, lookup>>

\* Lines 1007-1070 of calcMaxLoanWithGigogne: p2 after the test of p1, returned
\* when checkNegAmort accepts it, the upper bound of the search otherwise.
MaxLoanGigogneStart ==
    /\ gig.pc = "start" /\ gig.fn = "calcMaxLoanWithGigogne"
    /\ gig' = IF checkNegAmort(CappedSecondary(gig.a), gig.a)
              THEN [gig EXCEPT
                       !.pc = "done",
                       !.result = MaxLoanWithGigogneResult(
                                      Max(0, capacityConstant(gig.a)
                                               - TimesRatio(gig.a.maxP2, gig.a)),
                                      CappedSecondary(gig.a)).p2]
              ELSE [gig EXCEPT !.pc = "search", !.entered = TRUE, !.low = 0,
                               !.high = CappedSecondary(gig.a), !.optimal = 0, !.i = 0]
    /\ UNCHANGED <<loanCall, loanCallPrev, opt, amort, ann, taeg, store, lookup>>

\* Lines 1073-1081: one pass of the for loop.
MaxLoanGigogneStep ==
    /\ gig.pc = "search" /\ gig.fn = "calcMaxLoanWithGigogne"
    /\ MaxLoanGigogneLoopRuns(gig.i)
    /\ gig' = IF checkNegAmort((gig.low + gig.high) \div 2, gig.a)
              THEN [gig EXCEPT !.optimal = (gig.low + gig.high) \div 2,
                               !.low = (gig.low + gig.high) \div 2, !.i = @ + 1]
              ELSE [gig EXCEPT !.high = (gig.low + gig.high) \div 2, !.i = @ + 1]
    /\ UNCHANGED <<loanCall, loanCallPrev, opt, amort, ann, taeg, store, lookup>>

\* Lines 1082-1090: p2 = optimal, and the record returned.
MaxLoanGigogneReturn ==
    /\ gig.pc = "search" /\ gig.fn = "calcMaxLoanWithGigogne"
    /\ ~MaxLoanGigogneLoopRuns(gig.i)
    /\ gig' = [gig EXCEPT
                  !.pc = "done",
                  !.result = MaxLoanWithGigogneResult(
                                 capacityConstant(gig.a) - TimesRatio(gig.optimal, gig.a),
                                 gig.optimal).p2]
    /\ UNCHANGED <<loanCall, loanCallPrev, opt, amort, ann, taeg, store, lookup>>

NextSolvers ==
    \/ OptimizeStart
    \/ OptimizeSearchStep
    \/ OptimizeFinal
    \/ SolveRequiredLoan
    \/ SolveMaxPropertyPrice
    \/ OptimalSecondaryStart
    \/ OptimalSecondaryStep
    \/ OptimalSecondaryReturn
    \/ MaxLoanGigogneStart
    \/ MaxLoanGigogneStep
    \/ MaxLoanGigogneReturn

SpecSolvers == InitSolvers /\ [][NextSolvers]_vars

GigogneSearches == {"calcOptimalSecondaryAmount", "calcMaxLoanWithGigogne"}

\* The caps of the three price and loan solvers, and what they return.
CapsOfPriceAndLoanSolvers ==
    /\ opt.pc \in {"search", "done"} => opt.iterations <= SearchMaxIterations
    /\ opt.pc = "done" => opt.result.price \in {0, opt.optimalPrice}
    /\ gig.pc = "done" /\ gig.fn \in {"calcRequiredLoan", "calcMaxPropertyPrice"}
          => gig.i <= FormulaConstants.iteration.maxIterations

-----------------------------------------------------------------------------
(* state.js: the getters, and what a caller can do with the values they      *)
(* return.  Item objects and table rows live in a heap and are named by      *)
(* their identity; only their amount is kept.  A value handed to a caller    *)
(* holds, for each element of an array, either the stored object itself      *)
(* (shared) or an object of its own.                                         *)

MaxObjects == 3

Objects == 1..MaxObjects

GetterAmounts == {Euro(500), Euro(2800)}

\* An element of a returned array that is the stored object itself.
SharedHandle(object) == [shared |-> TRUE, object |-> object, amount |-> 0]

\* An element of a returned array that is a copy.
OwnHandle(amount) == [shared |-> FALSE, object |-> 0, amount |-> amount]

\* [...array]: a new array with the same objects.
SpreadArray(array) == [i \in DOMAIN array |-> SharedHandle(array[i])]

\* JSON.parse(JSON.stringify(array)): a new array with new objects.
deepCloneArray(array, heap) == [i \in DOMAIN array |-> OwnHandle(heap[array[i]])]

\* The amount read through an element of a returned array.
AmountOf(handle, heap) == IF handle.shared THEN heap[handle.object] ELSE handle.amount

NoArrays == [revenues |-> <<>>, charges |-> <<>>, amortizationTable |-> <<>>]

NoObjects == [ages |-> <<>>, rates |-> <<>>, gigogne |-> <<>>]

\* The caller holds nothing yet.
NoHeld == [getter |-> "none", arrays |-> NoArrays, objects |-> NoObjects, mutations |-> 0]

\* How many times a caller changes one returned value.
MaxMutations == 1

\* After the module is loaded: object 1 is the default revenue.  The objects with
\* primitive values only are kept as functions from their keys to numbers.
InitGetters ==
    /\ store = [pc |-> "ready", nextObject |-> 2,
                heap |-> [o \in Objects |-> IF o = 1 THEN ItemDefaults.revenue.amount ELSE 0],
                state |-> [revenues |-> <<1>>, charges |-> <<>>,
                           amortizationTable |-> <<>>,
                           ages |-> ("person1" :> defaultState.ages.person1),
                           rates |-> [d \in DOMAIN defaultState.rates
                                          |-> defaultState.rates[d].value],
                           gigogne |-> ("optimalAmount" :> 0) @@ ("actualAmount" :> 0)],
                held |-> NoHeld]
    /\ loanCall = Idle /\ loanCallPrev = Idle /\ opt = Idle /\ amort = Idle /\ ann = Idle
    /\ taeg = Idle /\ gig = Idle /\ lookup = Idle

getState ==
    /\ store' = [store EXCEPT
                    !.held = [getter |-> "getState", mutations |-> 0,
                              arrays |-> [a \in DOMAIN NoArrays
                                             |-> deepCloneArray(store.state[a], store.heap)],
                              objects |-> [o \in DOMAIN NoObjects |-> store.state[o]]]]
    /\ UNCHANGED <<loanCall, loanCallPrev, opt, amort, ann, taeg, gig, lookup>>

getRevenues ==
    /\ store' = [store EXCEPT
                    !.held = [NoHeld EXCEPT !.getter = "getRevenues",
                                            !.arrays.revenues =
                                                 SpreadArray(store.state.revenues)]]
    /\ UNCHANGED <<loanCall, loanCallPrev, opt, amort, ann, taeg, gig, lookup>>

getCharges ==
    /\ store' = [store EXCEPT
                    !.held = [NoHeld EXCEPT !.getter = "getCharges",
                                            !.arrays.charges =
                                                 SpreadArray(store.state.charges)]]
    /\ UNCHANGED <<loanCall, loanCallPrev, opt, amort, ann, taeg, gig, lookup>>

getAges ==
    /\ store' = [store EXCEPT
                    !.held = [NoHeld EXCEPT !.getter = "getAges",
                                            !.objects.ages = store.state.ages]]
    /\ UNCHANGED <<loanCall, loanCallPrev, opt, amort, ann, taeg, gig, lookup>>

getRates ==
    /\ store' = [store EXCEPT
                    !.held = [NoHeld EXCEPT !.getter = "getRates",
                                            !.objects.rates = store.state.rates]]
    /\ UNCHANGED <<loanCall, loanCallPrev, opt, amort, ann, taeg, gig, lookup>>

getGigogne ==
    /\ store' = [store EXCEPT
                    !.held = [NoHeld EXCEPT !.getter = "getGigogne",
                                            !.objects.gigogne = store.state.gigogne]]
    /\ UNCHANGED <<loanCall, loanCallPrev, opt, amort, ann, taeg, gig, lookup>>

getComputed ==
    /\ store' = [store EXCEPT
                    !.held = [NoHeld EXCEPT !.getter = "getComputed",
                                            !.arrays.amortizationTable =
                                                 SpreadArray(store.state.amortizationTable)]]
    /\ UNCHANGED <<loanCall, loanCallPrev, opt, amort, ann, taeg, gig, lookup>>

\* The caller assigns to a property of an element of a returned array, as
\* handleRevenueRowChange does with revenue.amount.
mutateHeldItem ==
    /\ store.held.mutations < MaxMutations
    /\ \E a \in DOMAIN NoArrays :
          \E i \in DOMAIN store.held.arrays[a] :
             \E amount \in GetterAmounts :
                store' = IF store.held.arrays[a][i].shared
                         THEN [store EXCEPT
                                  !.heap[store.held.arrays[a][i].object] = amount,
                                  !.held.mutations = @ + 1]
                         ELSE [store EXCEPT !.held.arrays[a][i].amount = amount,
                                            !.held.mutations = @ + 1]
    /\ UNCHANGED <<loanCall, loanCallPrev, opt, amort, ann, taeg, gig, lookup>>

\* The caller removes the last element of a returned array.
mutateHeldArray ==
    /\ store.held.mutations < MaxMutations
    /\ \E a \in DOMAIN NoArrays :
          /\ store.held.arrays[a] # <<>>
          /\ store' = [store EXCEPT
                          !.held.arrays[a] = SubSeq(@, 1, Len(@) - 1),
                          !.held.mutations = @ + 1]
    /\ UNCHANGED <<loanCall, loanCallPrev, opt, amort, ann, taeg, gig, lookup>>

\* The caller assigns to a property of a returned object.
mutateHeldObject ==
    /\ store.held.mutations < MaxMutations
    /\ \E o \in DOMAIN NoObjects :
          \E key \in DOMAIN store.held.objects[o] :
             \E value \in {0, 1} :
                store' = [store EXCEPT !.held.objects[o][key] = value,
                                       !.held.mutations = @ + 1]
    /\ UNCHANGED <<loanCall, loanCallPrev, opt, amort, ann, taeg, gig, lookup>>

\* setRevenues(revenues) with the array the caller holds from getRevenues, as at the
\* end of handleRevenueRowChange: revenues.map(r => ({ ...r })) makes new objects.
setRevenues ==
    /\ store.held.getter = "getRevenues"
    /\ store.nextObject + Len(store.held.arrays.revenues) <= MaxObjects + 1
    /\ store' = [store EXCEPT
                    !.heap = [o \in Objects |->
                                 IF o - store.nextObject + 1
                                        \in DOMAIN store.held.arrays.revenues
                                 THEN AmountOf(store.held.arrays.revenues[
                                                   o - store.nextObject + 1], store.heap)
                                 ELSE store.heap[o]],
                    !.state.revenues = [i \in DOMAIN store.held.arrays.revenues
                                           |-> store.nextObject + i - 1],
                    !.nextObject = @ + Len(store.held.arrays.revenues)]
    /\ UNCHANGED <<loanCall, loanCallPrev, opt, amort, ann, taeg, gig, lookup>>

\* addCharge(item): a new object at the end of state.charges.
addChargeItem ==
    /\ store.nextObject <= MaxObjects
    /\ \E amount \in GetterAmounts :
          store' = [store EXCEPT
                       !.heap[store.nextObject] = amount,
                       !.state.charges = Append(@, store.nextObject),
                       !.nextObject = @ + 1]
    /\ UNCHANGED <<loanCall, loanCallPrev, opt, amort, ann, taeg, gig, lookup>>

\* setAmortizationTable(table) with a table of one new row: [...table] keeps the row.
setAmortizationTable ==
    /\ store.nextObject <= MaxObjects
    /\ \E amount \in GetterAmounts :
          store' = [store EXCEPT
                       !.heap[store.nextObject] = amount,
                       !.state.amortizationTable = <<store.nextObject>>,
                       !.nextObject = @ + 1]
    /\ UNCHANGED <<loanCall, loanCallPrev, opt, amort, ann, taeg, gig, lookup>>

NextGetters ==
    \/ getState
    \/ getRevenues
    \/ getCharges
    \/ getAges
    \/ getRates
    \/ getGigogne
    \/ getComputed
    \/ mutateHeldItem
    \/ mutateHeldArray
    \/ mutateHeldObject
    \/ setRevenues
    \/ addChargeItem
    \/ setAmortizationTable

SpecGetters == InitGetters /\ [][NextGetters]_vars

\* The stored state as later getter calls show it.
StoredAsSeen(s) ==
    [revenues |-> [i \in DOMAIN s.state.revenues |-> s.heap[s.state.revenues[i]]],
     charges |-> [i \in DOMAIN s.state.charges |-> s.heap[s.state.charges[i]]],
     amortizationTable |-> [i \in DOMAIN s.state.amortizationTable
                               |-> s.heap[s.state.amortizationTable[i]]],
     ages |-> s.state.ages, rates |-> s.state.rates, gigogne |-> s.state.gigogne]

\* C29: no getter of the state store hands out mutable state: mutating any value
\* returned by getState, getRevenues, getCharges, getAges, getRates, getGigogne or
\* getComputed (the item objects inside returned arrays included) leaves the stored
\* state, as later getter calls show it, unchanged; only setters change it.
C29_GettersHandOutCopies ==
    [][(mutateHeldItem \/ mutateHeldArray \/ mutateHeldObject)
          => StoredAsSeen(store') = StoredAsSeen(store)]_vars

-----------------------------------------------------------------------------
(* events.js: debounce, as used for debouncedRecalculate.  Time passes in     *)
(* ticks; a timer is due when its remaining time is 0, and the event loop     *)
(* runs a due timer at some later moment, unless a call clears it first.      *)

\* The delay of 150 ms, in ticks of 30 ms.
DelayTicks == 5

NumArgs == 2

DebounceArgs == 1..NumArgs

NoTimer == [set |-> FALSE, remaining |-> 0, args |-> 0]

\* setTimeout(..., delay) with the deadline of the timer already pending.
setTimeoutKeepingDeadline(timer, args) ==
    [set |-> TRUE, remaining |-> IF timer.set THEN timer.remaining ELSE DelayTicks,
     args |-> args]

\* clearTimeout(timeoutId); timeoutId = setTimeout(() => fn.apply(this, args), delay)
setTimeoutAfterClear(timer, args) ==
    [set |-> TRUE, remaining |-> DelayTicks, args |-> args]

\* `elapsed` is the time since the last call (counted up to the delay), `burst` the
\* calls since the last run (counted up to 2), `runs` the runs of fn since the last
\* call, `ranArgs` and `ranBurst` the arguments and the burst of the last run.
InitDebounce ==
    /\ lookup = [pc |-> "ready", timer |-> NoTimer, elapsed |-> 0, lastArgs |-> 0,
                 burst |-> 0, runs |-> 0, ranArgs |-> 0, ranBurst |-> 0, ranAfter |-> 0]
    /\ loanCall = Idle /\ loanCallPrev = Idle /\ opt = Idle /\ amort = Idle /\ ann = Idle
    /\ taeg = Idle /\ gig = Idle /\ store = Idle

\* A call of the debounced function.
CallDebounced ==
    /\ \E args \in DebounceArgs :
          lookup' = [lookup EXCEPT
                        !.timer = setTimeoutAfterClear(lookup.timer, args),
                        !.elapsed = 0, !.lastArgs = args,
                        !.burst = Min(2, @ + 1), !.runs = 0]
    /\ UNCHANGED <<loanCall, loanCallPrev, opt, amort, ann, taeg, gig, store>>

\* One tick passes.
Tick ==
    /\ lookup' = [lookup EXCEPT
                     !.timer.remaining = Max(0, @ - 1),
                     !.elapsed = Min(DelayTicks, @ + 1)]
    /\ UNCHANGED <<loanCall, loanCallPrev, opt, amort, ann, taeg, gig, store>>

\* The event loop runs the due timer: fn.apply(this, args).
RunTimer ==
    /\ lookup.timer.set /\ lookup.timer.remaining = 0
    /\ lookup' = [lookup EXCEPT
                     !.timer = NoTimer,
                     !.runs = Min(2, @ + 1), !.ranArgs = lookup.timer.args,
                     !.ranBurst = lookup.burst, !.ranAfter = lookup.elapsed,
                     !.burst = 0]
    /\ UNCHANGED <<loanCall, loanCallPrev, opt, amort, ann, taeg, gig, store>>

NextDebounce == CallDebounced \/ Tick \/ RunTimer

SpecDebounce == InitDebounce /\ [][NextDebounce]_vars

\* Time passes, and the event loop runs a timer that stays due.
SpecDebounceFair == SpecDebounce /\ WF_vars(Tick) /\ WF_vars(RunTimer)

\* A call has not been followed by a run yet.
CallAwaitsRun == lookup.burst > 0

\* Since the last call fn has run at most once, and a run came only after the full
\* delay since the last call, with the arguments of that call.
RunsOnceAfterDelayWithLastArgs ==
    /\ lookup.runs <= 1
    /\ lookup.runs = 1 => lookup.ranAfter = DelayTicks /\ lookup.ranArgs = lookup.lastArgs

=============================================================================
